---- MODULE Spec2Model ----
(***************************************************************************)
(* Model of the conversion core of hnasko_lab_to_nwb: the multi-segment    *)
(* concatenation and gap filling of lotfi_2025, the video start lookup and *)
(* the converters' temporal alignment, the batch loop of                   *)
(* convert_all_sessions, the stimulus interval tables, and the argument    *)
(* checks of embargo_2025.  Every component has variables of its own and a *)
(* specification of its own; the variables of the other components stay    *)
(* idle.                                                                   *)
(*                                                                         *)
(* Time.  Sample timestamps are floats (seconds) in the source.  Here they *)
(* are exact integers counting ticks of 1/TicksPerSec second, so that      *)
(* 1/sampling_rate is TicksPerSec \div sampling_rate ticks for the rates   *)
(* the model draws (all of them divide TicksPerSec).  Wall-clock start     *)
(* times are whole seconds since midnight.  Floating-point rounding is     *)
(* outside the model.                                                      *)
(***************************************************************************)
EXTENDS Integers, Sequences, FiniteSets, TLC

\* ------------------------------------------------------------------------
\* Bounds of the model
\* ------------------------------------------------------------------------
MaxLen == 3       \* longest array handed to fill_gaps_w_nans directly
MaxTick == 10     \* largest timestamp (in ticks) handed to fill_gaps_w_nans
MaxSegs == 3      \* most TDT folders handed to the concatenating interface
MaxSegLen == 2    \* most samples the reader returns for one segment
MaxFillSpan == 2  \* fill_gaps is drawn only for sessions spanning at most this many seconds
MaxRows == 3      \* most rows of the video metadata table
MaxFrames == 2    \* most frames of a video
MaxSessions == 3  \* most sessions handed to the batch loop
MaxEvents == 2    \* most onset/offset pairs of one TDT event channel
MaxFolders == 3   \* most TDT folders a session function finds
MaxMatFiles == 2  \* most processed .mat files a session function finds
MaxItems == 2     \* most entries of one list of the optogenetics metadata
MaxTableRows == 3 \* most rows the metadata lists for the fiber photometry table
MaxIndicators == 2 \* most indicators the metadata lists
MaxDevices == 2   \* most devices the metadata lists
MaxCalls == 4     \* most calls of get_fiber_photometry_table on one file
MaxStamp == 4     \* largest time (in ticks) handed to the timestamp methods
MaxSamples == 13  \* most samples of the raw stream handed to the demodulation
MaxAmplitude == 6 \* half the largest envelope of the synthetic carrier

\* ------------------------------------------------------------------------
\* Units and input domains
\* ------------------------------------------------------------------------
TicksPerSec == 10

\* np.nan; real sample values are positive integers
NaN == 0 - 1

\* sampling rates (Hz) a caller may pass: two valid ones, zero and a negative one
SamplingRates == {0 - 5, 0, 5, 10}

\* the i-th real sample of an input array carries a value of its own
SampleValue(i) == 100 + i

SeqsUpTo(S, n) == UNION {[1..k -> S] : k \in 0..n}

\* wall-clock start dates found in the TDT block headers (info.start_date)
StartDates ==
    {[h |-> 10, m |-> 0, s |-> 0], [h |-> 10, m |-> 0, s |-> 1],
     [h |-> 10, m |-> 20, s |-> 0], [h |-> 10, m |-> 40, s |-> 0]}

\* sampling rates (fs) a TDT stream declares
StreamRates == {5, 10}

\* shape of the stream's data: 0 rows stands for a one-dimensional array
StreamRows == {0, 1, 2}

\* metadata "stream_indices": NoIndices stands for None, rows count from 1
NoIndices == <<>>
StreamIndicesChoices == {NoIndices, <<1>>, <<2>>, <<1, 2>>}

\* the value the reader holds for segment i at row r (0 for a 1-D stream),
\* column c: every sample carries a value of its own
StreamValue(i, r, c) == 1000 * i + 10 * r + c

VARIABLES
    fg_data,          \* fill_gaps_w_nans argument data
    fg_timestamps,    \* fill_gaps_w_nans argument timestamps
    fg_rate,          \* fill_gaps_w_nans argument sampling_rate
    fg_pc,            \* "call" | "returned" | "raised"
    fg_out,           \* what the call produced: [data, timestamps], or NoOutput
    pc,               \* position of the session: "new", "constructed", "ctor_failed",
                      \*   "loop", "done", "add_failed"
    session_start_datetimes,  \* start times (s) of the folders, in the order given
    segment_starting_times,   \* self.segment_starting_times (seconds)
    sst_set,          \* whether the attribute segment_starting_times exists
    stream_rows,      \* shape of the requested stream in this session
    stream_indices,   \* metadata stream_indices of the requested stream
    fill_gaps,        \* add_to_nwbfile argument
    stub_test,        \* add_to_nwbfile argument
    t1,               \* add_to_nwbfile argument / local (ticks)
    t2,               \* add_to_nwbfile argument / local (ticks)
    t2_arg,           \* the t2 the caller passed (ticks)
    timing_kwargs,    \* local timing_kwargs when add_to_nwbfile ends
    seg_i,            \* loop index i, counting from 1
    seg_lens,         \* number of samples (timestamps) read per segment so far
    loads,            \* the windows [t1, t2] requested from the reader so far
    tdt_fs,           \* tdt_photometry.streams[stream_name].fs of the last load
    seg_fs,           \* the fs each segment read so far declared
    fill_calls,       \* number of calls of fill_gaps_w_nans made by add_to_nwbfile
    concatenated_data,        \* concatenated_data as the loop leaves it
    concatenated_timestamps,  \* concatenated_timestamps as the loop leaves it (ticks)
    nwb_lab_meta_data,        \* nwbfile holds the fiber_photometry lab metadata
    nwb_trials,               \* nwbfile.trials rows
    nwb_acquisition           \* nwbfile.acquisition: the series added

fvars == <<fg_data, fg_timestamps, fg_rate, fg_pc, fg_out>>

cvars == <<pc, session_start_datetimes, segment_starting_times, sst_set,
           stream_rows, stream_indices, fill_gaps, stub_test, t1, t2, t2_arg,
           timing_kwargs, seg_i, seg_lens, loads, tdt_fs, seg_fs, fill_calls,
           concatenated_data, concatenated_timestamps,
           nwb_lab_meta_data, nwb_trials, nwb_acquisition>>

VARIABLES
    v_pc,             \* "idle" | "lookups" | "converter" | "aligned" | "failed"
    video_metadata,   \* the video metadata workbook: [exists, columns, rows]
    session_starting_time,      \* start of the session (s)
    video_file_paths,           \* the video files still to be looked up
    video_interfaces,           \* names of the converter's video interfaces
    video_frames,               \* number of frames of every video of the session
    video_time_alignment_dict,  \* interface name -> video_starting_time (s)
    video_timestamps,           \* interface name -> what get_timestamps() returns
    v_call            \* the last call of get_video_aligned_starting_time

avars == <<v_pc, video_metadata, session_starting_time, video_file_paths,
           video_interfaces, video_frames, video_time_alignment_dict,
           video_timestamps, v_call>>

VARIABLES
    b_pc,             \* "idle" | "frequencies" | "durations" | "done"
    session_to_nwb_kwargs_per_session,  \* the sessions dataset_to_nwb loops over
    b_i,              \* index of the session the loop is at, counting from 1
    b_attempts,       \* the conversions called so far: [session, protocol, raised]
    b_nwb_files,      \* the .nwb files written so far: [subject_id, protocol]
    b_exception_files \* the ERROR_*.txt files on disk: [subject_id, session_id, kwargs_of, traceback_of]

bvars == <<b_pc, session_to_nwb_kwargs_per_session, b_i, b_attempts,
           b_nwb_files, b_exception_files>>

VARIABLES
    s_pc,             \* "idle" | "done" | "df_returned" | "df_raised"
    tdt_events,       \* channel -> its onset/offset pairs, for the channels present
    stream_names,     \* the channels the metadata lists, in order
    s_called,         \* which function ran: "shock", "auditory", "optogenetic"
    nwb_stimulus,     \* the interval tables added to the file: [name, rows]
    stimulus_intervals_df  \* what get_stimulus_intervals_df returned: [raised, rows]

svars == <<s_pc, tdt_events, stream_names, s_called, nwb_stimulus,
           stimulus_intervals_df>>

VARIABLES
    g_pc,             \* session_to_nwb: "idle" | "start" | "dir_made" | "configured"
                      \*   | "converted" | "raised"
    protocol_type,    \* session_to_nwb argument
    g_stub_test,      \* session_to_nwb argument
    g_disk_before,    \* the paths on disk when session_to_nwb is called
    g_disk,           \* the paths on disk
    g_conversion_runs,\* number of calls of converter.run_conversion
    d_pc,             \* add_to_nwbfile: "idle" | "call" | "loaded" | "written"
                      \*   | "raised"
    driver_freq,      \* add_to_nwbfile argument: <<>> stands for None
    d_name,           \* add_to_nwbfile argument: <<>> stands for None
    d_stream_found,   \* the TDT block holds the raw modulated stream
    d_loads,          \* number of calls of self.load
    d_series          \* names of the series added to the ophys module

gvars == <<g_pc, protocol_type, g_stub_test, g_disk_before, g_disk,
           g_conversion_runs, d_pc, driver_freq, d_name, d_stream_found,
           d_loads, d_series>>

VARIABLES
    l_pc,             \* lotfi session function: "idle" | "start" | "folders_found"
                      \*   | "mat_found" | "metadata_loaded" | "filtered"
                      \*   | "converted" | "raised"
    l_function,       \* "varying_frequencies" | "varying_durations"
    tdt_folder_paths, \* number of TDT folders the glob finds
    mat_file_paths,   \* number of processed .mat files the glob finds
    l_error,          \* the exception the function raised, "" for none
    stimulus_location,\* session_to_nwb argument
    opto_metadata_loaded, \* metadata["Optogenetics"] as read from the yaml file
    opto_metadata,    \* metadata["Optogenetics"] as handed to run_conversion
    l_conversion_runs \* number of calls of converter.run_conversion

lvars == <<l_pc, l_function, tdt_folder_paths, mat_file_paths, l_error,
           stimulus_location, opto_metadata_loaded, opto_metadata,
           l_conversion_runs>>

VARIABLES
    t_pc,             \* get_fiber_photometry_table: "idle" | "ready" | "raised"
    fp_metadata,      \* metadata["Ophys"]["FiberPhotometry"]: [rows, indicators, devices]
    t_lab_meta_data,\* the FiberPhotometry objects of the file: [name, table, indicators]
    t_devices,      \* number of devices added to the file
    t_tables_made,    \* number of FiberPhotometryTable objects constructed
    t_returned        \* the table each call returned, in call order

tvars == <<t_pc, fp_metadata, t_lab_meta_data, t_devices, t_tables_made,
           t_returned>>

VARIABLES
    i_pc,             \* demodulated interface: "idle" | "constructed"
    i_file_samples,   \* length of the dataset of the .mat file
    i_interval,       \* ticks between two samples, 1 / _sampling_frequency
    i_starting_time,  \* self._starting_time
    i_num_samples,    \* self._num_samples: <<>> stands for None
    aligned_timestamps, \* <<>> while the attribute is not set, else <<array>>
    i_result          \* what the last call returned: [made, t1, t2, raised, value]

ivars == <<i_pc, i_file_samples, i_interval, i_starting_time, i_num_samples,
           aligned_timestamps, i_result>>

VARIABLES
    m_pc,             \* get_demodulated_signals: "idle" | "call" | "calcium"
                      \*   | "isosbestic" | "returned" | "raised";
                      \*   demodulate_signal: "carrier" | "demodulated"
    raw_signal,       \* tdt_interface.get_signal(stream_name)
    fs_raw,           \* tdt_interface.get_sampling_rate(stream_name)
    m_timestamps,     \* tdt_interface.get_timestamps(stream_name)
    m_calls,          \* the demodulate_signal calls made: their arguments
    m_result,         \* [calcium_signal, isosbestic_signal, timestamps]
    m_amplitude,      \* envelope A of the synthetic carrier
    m_driver_freq,    \* demodulate_signal argument driver_freq
    demodulated_signal \* what demodulate_signal returned

mvars == <<m_pc, raw_signal, fs_raw, m_timestamps, m_calls, m_result,
           m_amplitude, m_driver_freq, demodulated_signal>>

NoCall == [made |-> FALSE, file |-> "", raised |-> FALSE, value |-> 0]

EmptyDict == [n \in {} |-> 0]

\* no lotfi session function is running
LotfiSessionIdle ==
    /\ l_pc = "idle"
    /\ l_function = ""
    /\ tdt_folder_paths = 0
    /\ mat_file_paths = 0
    /\ l_error = ""
    /\ stimulus_location = ""
    /\ opto_metadata_loaded = <<>>
    /\ opto_metadata = <<>>
    /\ l_conversion_runs = 0

\* no fiber photometry table is asked for
TableIdle ==
    /\ t_pc = "idle"
    /\ fp_metadata = <<>>
    /\ t_lab_meta_data = <<>>
    /\ t_devices = 0
    /\ t_tables_made = 0
    /\ t_returned = <<>>

\* no demodulated interface exists
TimestampsIdle ==
    /\ i_pc = "idle"
    /\ i_file_samples = 0
    /\ i_interval = 0
    /\ i_starting_time = 0
    /\ i_num_samples = <<>>
    /\ aligned_timestamps = <<>>
    /\ i_result = [made |-> FALSE, t1 |-> 0, t2 |-> 0, raised |-> "", value |-> <<>>]

\* no raw stream is being demodulated
DemodIdle ==
    /\ m_pc = "idle"
    /\ raw_signal = <<>>
    /\ fs_raw = 0
    /\ m_timestamps = <<>>
    /\ m_calls = <<>>
    /\ m_result = [calcium_signal |-> <<>>, isosbestic_signal |-> <<>>, timestamps |-> <<>>]
    /\ m_amplitude = 0
    /\ m_driver_freq = 0
    /\ demodulated_signal = <<>>

\* no video is being aligned
VideoIdle ==
    /\ v_pc = "idle"
    /\ video_metadata = [exists |-> FALSE, columns |-> {}, rows |-> <<>>]
    /\ session_starting_time = 0
    /\ video_file_paths = <<>>
    /\ video_interfaces = {}
    /\ video_frames = 0
    /\ video_time_alignment_dict = EmptyDict
    /\ video_timestamps = EmptyDict
    /\ v_call = NoCall

\* no batch is running
BatchIdle ==
    /\ b_pc = "idle"
    /\ session_to_nwb_kwargs_per_session = <<>>
    /\ b_i = 0
    /\ b_attempts = <<>>
    /\ b_nwb_files = {}
    /\ b_exception_files = {}

\* no stimulus table is being built
StimuliIdle ==
    /\ s_pc = "idle"
    /\ tdt_events = EmptyDict
    /\ stream_names = <<>>
    /\ s_called = ""
    /\ nwb_stimulus = <<>>
    /\ stimulus_intervals_df = [raised |-> FALSE, rows |-> <<>>]

\* neither embargo_2025 session_to_nwb nor the demodulating interface is called
ConfigIdle ==
    /\ g_pc = "idle"
    /\ protocol_type = ""
    /\ g_stub_test = FALSE
    /\ g_disk_before = {}
    /\ g_disk = {}
    /\ g_conversion_runs = 0
    /\ d_pc = "idle"
    /\ driver_freq = <<>>
    /\ d_name = <<>>
    /\ d_stream_found = FALSE
    /\ d_loads = 0
    /\ d_series = <<>>

NoOutput == [data |-> <<>>, timestamps |-> <<>>, produced |-> FALSE]

\* timing_kwargs is not assigned yet
NoTimingKwargs == [kind |-> "unset"]

\* ------------------------------------------------------------------------
\* fill_gaps_w_nans (utils/fill_gaps_w_nans.py)
\* ------------------------------------------------------------------------

FillGapsPrecondition_Mut(data, timestamps, sampling_rate) ==
    sampling_rate > 0

\* the two assert statements that open the function
FillGapsPrecondition(data, timestamps, sampling_rate) ==
    /\ Len(data) = Len(timestamps)
    /\ sampling_rate > 0

ExpectedInterval_Mut(sampling_rate) == sampling_rate

\* expected_interval = 1 / sampling_rate, in ticks
ExpectedInterval(sampling_rate) == TicksPerSec \div sampling_rate

\* time_diffs = np.diff(timestamps); time_diffs[i] = timestamps[i+1] - timestamps[i]
TimeDiffs(timestamps) ==
    [i \in 1..(IF Len(timestamps) = 0 THEN 0 ELSE Len(timestamps) - 1) |->
        timestamps[i + 1] - timestamps[i]]

\* time_diffs > expected_interval
IsGap(time_diff, sampling_rate) ==
    time_diff > ExpectedInterval(sampling_rate)

RECURSIVE GapIndicesFrom(_, _, _)
GapIndicesFrom(diffs, sampling_rate, i) ==
    IF i > Len(diffs) THEN <<>>
    ELSE (IF IsGap(diffs[i], sampling_rate) THEN <<i>> ELSE <<>>)
         \o GapIndicesFrom(diffs, sampling_rate, i + 1)

\* gap_indices = np.where(time_diffs > expected_interval)[0], ascending.
\* Index g (1-based) is the gap between timestamps[g] and timestamps[g+1].
GapIndices(timestamps, sampling_rate) ==
    GapIndicesFrom(TimeDiffs(timestamps), sampling_rate, 1)

NumNans_Mut(time_diff, sampling_rate) ==
    (time_diff * sampling_rate) \div TicksPerSec

\* num_nans = int(np.floor(time_diff * sampling_rate)) - 1
NumNans(time_diff, sampling_rate) ==
    ((time_diff * sampling_rate) \div TicksPerSec) - 1

\* nan_data = np.full(num_nans, np.nan)
NanData(num_nans) == [k \in 1..num_nans |-> NaN]

NanTimestamps_Mut(t_prev, num_nans, sampling_rate) ==
    [k \in 1..num_nans |-> t_prev + (k - 1) * ExpectedInterval(sampling_rate)]

\* nan_timestamps = timestamps[gap_idx] + np.arange(1, num_nans + 1) * expected_interval
NanTimestamps(t_prev, num_nans, sampling_rate) ==
    [k \in 1..num_nans |-> t_prev + k * ExpectedInterval(sampling_rate)]

\* a[lo-1:hi] of Python, for 1-based positions lo..hi: empty when lo > hi,
\* clipped to the end of a
Slice(a, lo, hi) ==
    LET last == IF hi > Len(a) THEN Len(a) ELSE hi
    IN  [k \in 1..(last - lo + 1) |-> a[lo + k - 1]]

NextEnd_Mut(gaps, idx, n) ==
    IF idx + 1 <= Len(gaps) THEN gaps[idx + 1] - 1 ELSE n

\* next_end = gap_indices[idx + 1] + 1 if idx + 1 < len(gap_indices) else len(data)
NextEnd(gaps, idx, n) ==
    IF idx + 1 <= Len(gaps) THEN gaps[idx + 1] ELSE n

\* the for loop over gap_indices: the pieces appended from gap number idx on
RECURSIVE FilledFrom(_, _, _, _, _)
FilledFrom(data, timestamps, sampling_rate, gaps, idx) ==
    IF idx > Len(gaps) THEN [data |-> <<>>, timestamps |-> <<>>]
    ELSE
        LET gap_idx   == gaps[idx]
            time_diff == timestamps[gap_idx + 1] - timestamps[gap_idx]
            num_nans  == NumNans(time_diff, sampling_rate)
            next_end  == NextEnd(gaps, idx, Len(data))
            rest      == FilledFrom(data, timestamps, sampling_rate, gaps, idx + 1)
        IN  [data |-> NanData(num_nans)
                      \o Slice(data, gap_idx + 1, next_end)
                      \o rest.data,
             timestamps |-> NanTimestamps(timestamps[gap_idx], num_nans, sampling_rate)
                      \o Slice(timestamps, gap_idx + 1, next_end)
                      \o rest.timestamps]

FillGaps_Mut(data, timestamps, sampling_rate) ==
    LET gaps == GapIndices(timestamps, sampling_rate)
    IN  IF Len(gaps) = 0
        THEN [data |-> <<>>, timestamps |-> <<>>]
        ELSE LET tail == FilledFrom(data, timestamps, sampling_rate, gaps, 1)
             IN  [data |-> Slice(data, 1, gaps[1]) \o tail.data,
                  timestamps |-> Slice(timestamps, 1, gaps[1]) \o tail.timestamps]

\* the body of fill_gaps_w_nans after its asserts
FillGaps(data, timestamps, sampling_rate) ==
    LET gaps == GapIndices(timestamps, sampling_rate)
    IN  IF Len(gaps) = 0
        THEN [data |-> data, timestamps |-> timestamps]
        ELSE LET tail == FilledFrom(data, timestamps, sampling_rate, gaps, 1)
             IN  [data |-> Slice(data, 1, gaps[1]) \o tail.data,
                  timestamps |-> Slice(timestamps, 1, gaps[1]) \o tail.timestamps]

\* ------------------------------------------------------------------------
\* Specification of direct calls of fill_gaps_w_nans
\* ------------------------------------------------------------------------
FillInputs ==
    /\ fg_timestamps \in SeqsUpTo(0..MaxTick, MaxLen)
    /\ \E m \in 0..MaxLen : fg_data = [i \in 1..m |-> SampleValue(i)]
    /\ fg_rate \in SamplingRates
    /\ fg_pc = "call"
    /\ fg_out = NoOutput

\* the call returns
FillReturns ==
    /\ fg_pc = "call"
    /\ FillGapsPrecondition(fg_data, fg_timestamps, fg_rate)
    /\ LET r == FillGaps(fg_data, fg_timestamps, fg_rate)
       IN  fg_out' = [data |-> r.data, timestamps |-> r.timestamps, produced |-> TRUE]
    /\ fg_pc' = "returned"
    /\ UNCHANGED <<fg_data, fg_timestamps, fg_rate>>
    /\ UNCHANGED <<cvars, avars, bvars, svars, gvars, lvars, tvars, ivars, mvars>>

\* one of the asserts fails: AssertionError, nothing is returned
FillRaises ==
    /\ fg_pc = "call"
    /\ ~FillGapsPrecondition(fg_data, fg_timestamps, fg_rate)
    /\ fg_pc' = "raised"
    /\ UNCHANGED <<fg_data, fg_timestamps, fg_rate, fg_out>>
    /\ UNCHANGED <<cvars, avars, bvars, svars, gvars, lvars, tvars, ivars, mvars>>

FillNext == FillReturns \/ FillRaises


\* ------------------------------------------------------------------------
\* ConcatenatedTDTFiberPhotometryInterface.__init__
\* (interfaces/concatenated_tdt_fp_interface.py)
\* ------------------------------------------------------------------------

\* start_date.timestamp(): seconds, here counted from midnight of the session day
Timestamp(d) == d.h * 3600 + d.m * 60 + d.s

\* (a - b).total_seconds() of two datetimes
TotalSeconds(a, b) == Timestamp(a) - Timestamp(b)

\* a < b, a <= b of two datetimes
DatetimeLess(a, b) == Timestamp(a) < Timestamp(b)

RECURSIVE InsertSorted(_, _)
InsertSorted(d, sorted) ==
    IF sorted = <<>> THEN <<d>>
    ELSE IF DatetimeLess(d, Head(sorted))
         THEN <<d>> \o sorted
         ELSE <<Head(sorted)>> \o InsertSorted(d, Tail(sorted))

\* sorted(session_start_datetimes): stable, ascending
RECURSIVE Sorted(_)
Sorted(dts) ==
    IF dts = <<>> THEN <<>>
    ELSE InsertSorted(dts[Len(dts)], Sorted(SubSeq(dts, 1, Len(dts) - 1)))

\* the assert on the order of the folders
ChronologicalOrder(dts) == dts = Sorted(dts)

SegmentStartingTimes_Mut(dts) ==
    [i \in 1..Len(dts) |-> TotalSeconds(dts[i], dts[IF i = 1 THEN 1 ELSE i - 1])]

\* [(dt - session_start_datetimes[0]).total_seconds() for dt in session_start_datetimes]
SegmentStartingTimes(dts) ==
    [i \in 1..Len(dts) |-> TotalSeconds(dts[i], dts[1])]

\* __init__(folder_paths): one TDT interface per folder, then the order check,
\* then segment_starting_times
Construct ==
    /\ pc = "new"
    /\ \E dts \in SeqsUpTo(StartDates, MaxSegs) \ {<<>>} :
          /\ session_start_datetimes' = dts
          /\ IF ChronologicalOrder(dts)
             THEN /\ segment_starting_times' = SegmentStartingTimes(dts)
                  /\ sst_set' = TRUE
                  /\ pc' = "constructed"
             ELSE /\ pc' = "ctor_failed"
                  /\ UNCHANGED <<segment_starting_times, sst_set>>
    /\ UNCHANGED <<stream_rows, stream_indices, fill_gaps, stub_test, t1, t2, t2_arg,
                   timing_kwargs, seg_i, seg_lens, loads, tdt_fs, seg_fs, fill_calls,
                   concatenated_data, concatenated_timestamps,
                   nwb_lab_meta_data, nwb_trials, nwb_acquisition>>
    /\ UNCHANGED <<fvars, avars, bvars, svars, gvars, lvars, tvars, ivars, mvars>>

\* ------------------------------------------------------------------------
\* ConcatenatedTDTFiberPhotometryInterface.add_to_nwbfile
\* ------------------------------------------------------------------------

NumSegments == Len(session_start_datetimes)

\* stream_name_to_timestamps[stream_name] of a segment holding n samples: the
\* segment's own clock, one tick apart, from 0
SegmentTimestamps(n) == [k \in 1..n |-> k - 1]

\* timestamps = stream_name_to_timestamps[stream_name] + self.segment_starting_times[i]
ShiftedTimestamps(n, offset_s) ==
    [k \in 1..n |-> SegmentTimestamps(n)[k] + offset_s * TicksPerSec]

\* data[stream_indices, :] raises IndexError on a 1-D array or a missing row
SelectionValid(rows, indices) ==
    indices # NoIndices =>
        /\ rows > 0
        /\ \A j \in 1..Len(indices) : indices[j] <= rows

\* a two-dimensional array as the sequence of its rows
StreamMatrix(i, rowIds, n) ==
    [r \in 1..Len(rowIds) |-> [c \in 1..n |-> StreamValue(i, rowIds[r], c)]]

\* data.T of a matrix of k rows and n columns
Transpose(mat, k, n) == [c \in 1..n |-> [r \in 1..k |-> mat[r][c]]]

\* data.flatten(): row after row
RECURSIVE Flatten(_)
Flatten(mat) == IF mat = <<>> THEN <<>> ELSE Head(mat) \o Flatten(Tail(mat))

\* lines 327-338: the stream's data, the selected rows, transposed when there
\* are fewer rows than columns, flattened to one dimension
SegmentData(i, n, rows, indices) ==
    IF indices # NoIndices
    THEN LET k   == Len(indices)
             sel == StreamMatrix(i, indices, n)
         IN  IF k < n THEN Flatten(Transpose(sel, k, n)) ELSE Flatten(sel)
    ELSE IF rows = 0
         THEN [c \in 1..n |-> StreamValue(i, 0, c)]
         ELSE Flatten(StreamMatrix(i, [r \in 1..rows |-> r], n))

\* entry of add_to_nwbfile: the series metadata is looked up, the
\* fiber photometry table is fetched or created, the arrays start empty
BeginAdd ==
    /\ pc = "constructed"
    /\ \E rows \in StreamRows, indices \in StreamIndicesChoices,
          fg \in BOOLEAN, st \in BOOLEAN, t2v \in {0, TicksPerSec} :
          /\ fg => segment_starting_times[NumSegments] <= MaxFillSpan
          /\ stream_rows' = rows
          /\ stream_indices' = indices
          /\ fill_gaps' = fg
          /\ stub_test' = st
          /\ t2' = t2v
          /\ t2_arg' = t2v
    /\ t1' = 0
    /\ nwb_lab_meta_data' = TRUE
    /\ concatenated_data' = <<>>
    /\ concatenated_timestamps' = <<>>
    /\ seg_i' = 1
    /\ pc' = "loop"
    /\ UNCHANGED <<session_start_datetimes, segment_starting_times, sst_set,
                   timing_kwargs, seg_lens, loads, tdt_fs, seg_fs, fill_calls,
                   nwb_trials, nwb_acquisition>>
    /\ UNCHANGED <<fvars, avars, bvars, svars, gvars, lvars, tvars, ivars, mvars>>

TrialRow_Mut(timestamps, i) ==
    [start_time |-> timestamps[1], stop_time |-> timestamps[1], tags |-> i]

\* nwbfile.add_trial(start_time=timestamps[0], stop_time=timestamps[-1], tags=tag);
\* the tag, taken from the name of the segment's folder, is the segment's number
TrialRow(timestamps, i) ==
    [start_time |-> timestamps[1], stop_time |-> timestamps[Len(timestamps)], tags |-> i]

\* if len(self._tdt_interfaces) > 1
RecordsTrials(num_interfaces) == num_interfaces > 1

\* one iteration of the loop over self._tdt_interfaces: the reader returns n
\* samples of the stream, declared at rate fs
LoadSegment ==
    /\ pc = "loop"
    /\ seg_i <= NumSegments
    /\ \E n \in 0..MaxSegLen, fs \in StreamRates :
          IF stub_test /\ t2 # 0
          THEN \* the stub_test assert
               /\ pc' = "add_failed"
               /\ UNCHANGED <<t2, seg_i, seg_lens, loads, tdt_fs, seg_fs,
                              concatenated_data, concatenated_timestamps, nwb_trials>>
          ELSE LET t2n        == IF stub_test THEN t1 + TicksPerSec ELSE t2
                   timestamps == ShiftedTimestamps(n, segment_starting_times[seg_i])
                   data       == SegmentData(seg_i, n, stream_rows, stream_indices)
               IN  /\ t2' = t2n
                   /\ loads' = Append(loads, [t1 |-> t1, t2 |-> t2n])
                   /\ tdt_fs' = fs
                   /\ seg_fs' = Append(seg_fs, fs)
                   /\ IF ~SelectionValid(stream_rows, stream_indices)
                      THEN \* IndexError
                           /\ pc' = "add_failed"
                           /\ UNCHANGED <<seg_i, seg_lens, concatenated_data,
                                          concatenated_timestamps, nwb_trials>>
                      ELSE /\ concatenated_data' = concatenated_data \o data
                           /\ concatenated_timestamps' = concatenated_timestamps \o timestamps
                           /\ seg_lens' = Append(seg_lens, n)
                           /\ IF RecordsTrials(NumSegments)
                              THEN IF n = 0
                                   THEN \* timestamps[0]: IndexError
                                        /\ pc' = "add_failed"
                                        /\ UNCHANGED <<seg_i, nwb_trials>>
                                   ELSE /\ nwb_trials' = Append(nwb_trials,
                                               TrialRow(timestamps, seg_i))
                                        /\ seg_i' = seg_i + 1
                                        /\ pc' = "loop"
                              ELSE /\ seg_i' = seg_i + 1
                                   /\ pc' = "loop"
                                   /\ UNCHANGED nwb_trials
    /\ UNCHANGED <<session_start_datetimes, segment_starting_times, sst_set,
                   stream_rows, stream_indices, fill_gaps, stub_test, t1, t2_arg,
                   timing_kwargs, fill_calls, nwb_lab_meta_data, nwb_acquisition>>
    /\ UNCHANGED <<fvars, avars, bvars, svars, gvars, lvars, tvars, ivars, mvars>>

SeriesArrays_Mut(fill, data, timestamps, fs) ==
    [data |-> data, timestamps |-> timestamps]

\* lines 348-364: the arrays the series is built from, gap-filled over the
\* whole concatenation when fill_gaps is set
SeriesArrays(fill, data, timestamps, fs) ==
    IF fill
    THEN FillGaps(data, timestamps, fs)
    ELSE [data |-> data, timestamps |-> timestamps]

\* neuroconv's calculate_regular_series_rate: a rate is found when the
\* timestamps have one common difference (at the resolution of a tick)
HasRegularRate(timestamps) ==
    /\ Len(timestamps) >= 2
    /\ \A j \in 1..(Len(timestamps) - 1) :
          timestamps[j + 1] - timestamps[j] = timestamps[2] - timestamps[1]

\* lines 356-364: the local timing_kwargs; the rate is kept as its sampling
\* interval in ticks
TimingKwargs(fill, timestamps) ==
    IF fill /\ HasRegularRate(timestamps)
    THEN [kind |-> "starting_time_and_rate", starting_time |-> timestamps[1],
          interval |-> timestamps[2] - timestamps[1]]
    ELSE [kind |-> "timestamps"]

\* lines 371-378: FiberPhotometryResponseSeries(data=..., timestamps=...)
ResponseSeries(data, timestamps) ==
    [data |-> data, timestamps |-> timestamps, timing |-> "timestamps"]

\* after the loop: the optional gap fill over the whole concatenated array,
\* then the response series is built and added to the acquisition
FillAndWrite ==
    /\ pc = "loop"
    /\ seg_i > NumSegments
    /\ fill_calls' = IF fill_gaps THEN fill_calls + 1 ELSE fill_calls
    /\ IF fill_gaps /\ ~FillGapsPrecondition(concatenated_data, concatenated_timestamps, tdt_fs)
       THEN \* the assert of fill_gaps_w_nans
            /\ pc' = "add_failed"
            /\ UNCHANGED <<nwb_acquisition, timing_kwargs>>
       ELSE LET filled == SeriesArrays(fill_gaps, concatenated_data,
                                       concatenated_timestamps, tdt_fs)
            IN  /\ timing_kwargs' = TimingKwargs(fill_gaps, filled.timestamps)
                /\ nwb_acquisition' = Append(nwb_acquisition,
                        ResponseSeries(filled.data, filled.timestamps))
                /\ pc' = "done"
    /\ UNCHANGED <<session_start_datetimes, segment_starting_times, sst_set,
                   stream_rows, stream_indices, fill_gaps, stub_test, t1, t2, t2_arg, seg_i,
                   seg_lens, loads, tdt_fs, seg_fs, concatenated_data,
                   concatenated_timestamps, nwb_lab_meta_data, nwb_trials>>
    /\ UNCHANGED <<fvars, avars, bvars, svars, gvars, lvars, tvars, ivars, mvars>>

\* ------------------------------------------------------------------------
\* Video start lookup (embargo_2025/utils/get_video_aligned_starting_time.py)
\* and the converters' temporal alignment (lotfi_2025/nwbconverter.py,
\* embargo_2025/nwbconverter.py).  Video timestamps, wall-clock times and
\* offsets are whole seconds.
\* ------------------------------------------------------------------------
\* pd.NaT: what pd.to_datetime gives for an empty start_time cell
NaT == 0 - 1

VideoFiles == {"C4550.mp4", "C4550_250ms.mp4", "C4550_1s.mp4", "C4550_4s.mp4"}

\* start_time cells of the workbook: an empty one and two wall-clock times
VideoStartTimes == {NaT, 10, 14}

\* session start times: at the earlier video start, and between the two
SessionStartTimes == {10, 12}

MetadataRows == [file_name : VideoFiles, start_time : VideoStartTimes]

\* the workbook is missing, lacks a column, or holds up to MaxRows rows
VideoMetadataFiles ==
    {[exists |-> FALSE, columns |-> {}, rows |-> <<>>]}
        \cup {[exists |-> TRUE, columns |-> c, rows |-> <<>>] :
                 c \in {{}, {"file_name"}, {"start_time"}}}
        \cup {[exists |-> TRUE, columns |-> {"file_name", "start_time"}, rows |-> r] :
                 r \in SeqsUpTo(MetadataRows, MaxRows)}

\* the key convert_session files a video under: "Video" for the single video
\* of a varying-durations session, "Video_<suffix>" with the suffix cut from
\* the file name for the three videos of a varying-frequencies session
VideoInterfaceName(file_name) ==
    CASE file_name = "C4550.mp4" -> "Video"
      [] file_name = "C4550_250ms.mp4" -> "Video_250ms"
      [] file_name = "C4550_1s.mp4" -> "Video_1s"
      [] file_name = "C4550_4s.mp4" -> "Video_4s"

\* the sessions the convert_session scripts set up: three videos to align
\* (varying frequencies), one video to align (varying durations), one video
\* and no alignment dictionary (embargo_2025)
VideoSessions ==
    {[files |-> <<"C4550_250ms.mp4", "C4550_1s.mp4", "C4550_4s.mp4">>,
      interfaces |-> {"Video_250ms", "Video_1s", "Video_4s"}],
     [files |-> <<"C4550.mp4">>, interfaces |-> {"Video"}],
     [files |-> <<>>, interfaces |-> {"Video"}]}

\* get_original_timestamps(): one segment per video, one frame a second
OriginalTimestamps(frames) == << [j \in 1..frames |-> j - 1] >>

MatchingRows(rows, file_name) == SelectSeq(rows, LAMBDA r : r.file_name = file_name)

IsTimestamp(video_starting_time) == video_starting_time # NaT

TimeOffset(video_starting_time, session_start) == video_starting_time - session_start

OffsetAccepted_Mut(time_offset) == TRUE

OffsetAccepted(time_offset) == time_offset >= 0

\* get_video_aligned_starting_time: every assert that fails raises
GetVideoAlignedStartingTime(metadata, file_name, session_start) ==
    LET matching == MatchingRows(metadata.rows, file_name)
        passes ==
            /\ metadata.exists
            /\ "file_name" \in metadata.columns
            /\ "start_time" \in metadata.columns
            /\ matching # <<>>
            /\ IsTimestamp(matching[1].start_time)
            /\ OffsetAccepted(TimeOffset(matching[1].start_time, session_start))
    IN  IF passes
        THEN [raised |-> FALSE,
              value |-> TimeOffset(matching[1].start_time, session_start)]
        ELSE [raised |-> TRUE, value |-> 0]

DictUpdate(dict, key, value) ==
    [n \in DOMAIN dict \cup {key} |-> IF n = key THEN value ELSE dict[n]]

AlignedTimestamps_Mut(timestamps, video_starting_time) ==
    [k \in 1..Len(timestamps) |->
        [j \in 1..Len(timestamps[k]) |-> timestamps[k][j] + 2 * video_starting_time]]

\* aligned_timestamps: every segment shifted by video_starting_time
AlignedTimestamps(timestamps, video_starting_time) ==
    [k \in 1..Len(timestamps) |->
        [j \in 1..Len(timestamps[k]) |-> timestamps[k][j] + video_starting_time]]

\* the session as convert_session finds it before the first lookup
VideoInputs ==
    /\ v_pc = "lookups"
    /\ video_metadata \in VideoMetadataFiles
    /\ session_starting_time \in SessionStartTimes
    /\ \E session \in VideoSessions :
          /\ video_file_paths = session.files
          /\ video_interfaces = session.interfaces
    /\ video_frames \in 1..MaxFrames
    /\ video_time_alignment_dict = EmptyDict
    /\ video_timestamps = EmptyDict
    /\ v_call = NoCall

\* convert_session: the lookup of the next video returns and is filed
LookupReturns ==
    /\ v_pc = "lookups"
    /\ video_file_paths # <<>>
    /\ LET file_name == Head(video_file_paths)
           result == GetVideoAlignedStartingTime(video_metadata, file_name,
                                                 session_starting_time)
       IN  /\ ~result.raised
           /\ video_time_alignment_dict' =
                 DictUpdate(video_time_alignment_dict,
                            VideoInterfaceName(file_name), result.value)
           /\ v_call' = [made |-> TRUE, file |-> file_name,
                         raised |-> FALSE, value |-> result.value]
    /\ video_file_paths' = Tail(video_file_paths)
    /\ UNCHANGED <<v_pc, video_metadata, session_starting_time, video_interfaces,
                   video_frames, video_timestamps>>
    /\ UNCHANGED <<fvars, cvars, bvars, svars, gvars, lvars, tvars, ivars, mvars>>

\* convert_session: the lookup raises and the session is abandoned
LookupRaises ==
    /\ v_pc = "lookups"
    /\ video_file_paths # <<>>
    /\ LET file_name == Head(video_file_paths)
           result == GetVideoAlignedStartingTime(video_metadata, file_name,
                                                 session_starting_time)
       IN  /\ result.raised
           /\ v_call' = [made |-> TRUE, file |-> file_name,
                         raised |-> TRUE, value |-> 0]
    /\ v_pc' = "failed"
    /\ UNCHANGED <<video_metadata, session_starting_time, video_file_paths,
                   video_interfaces, video_frames, video_time_alignment_dict,
                   video_timestamps>>
    /\ UNCHANGED <<fvars, cvars, bvars, svars, gvars, lvars, tvars, ivars, mvars>>

\* the converter is built: its video interfaces hold their original
\* timestamps, and it keeps the dictionary (None is kept as an empty one)
BuildConverter ==
    /\ v_pc = "lookups"
    /\ video_file_paths = <<>>
    /\ v_pc' = "converter"
    /\ video_timestamps' = [n \in video_interfaces |-> OriginalTimestamps(video_frames)]
    /\ UNCHANGED <<video_metadata, session_starting_time, video_file_paths,
                   video_interfaces, video_frames, video_time_alignment_dict, v_call>>
    /\ UNCHANGED <<fvars, cvars, bvars, svars, gvars, lvars, tvars, ivars, mvars>>

\* temporally_align_data_interfaces, called once by run_conversion
TemporallyAlign ==
    /\ v_pc = "converter"
    /\ DOMAIN video_time_alignment_dict \subseteq video_interfaces
    /\ v_pc' = "aligned"
    /\ video_timestamps' =
          [n \in video_interfaces |->
              IF n \in DOMAIN video_time_alignment_dict
              THEN AlignedTimestamps(video_timestamps[n], video_time_alignment_dict[n])
              ELSE video_timestamps[n]]
    /\ UNCHANGED <<video_metadata, session_starting_time, video_file_paths,
                   video_interfaces, video_frames, video_time_alignment_dict, v_call>>
    /\ UNCHANGED <<fvars, cvars, bvars, svars, gvars, lvars, tvars, ivars, mvars>>

VideoNext == LookupReturns \/ LookupRaises \/ BuildConverter \/ TemporallyAlign

\* ------------------------------------------------------------------------
\* dataset_to_nwb (lotfi_2025/convert_all_sessions.py): the loop over the
\* sessions.  A conversion either returns or raises an Exception.
\* ------------------------------------------------------------------------
Subjects == {"C4550", "C4561", "C4708", "C5904"}

\* the kwargs of one session: the keys the loop reads
SessionKwargs == [subject_id : Subjects, session_id : {"opto"}]

\* lists of sessions of different subjects
SessionLists ==
    {l \in SeqsUpTo(SessionKwargs, MaxSessions) :
        \A i, j \in 1..Len(l) : i # j => l[i].subject_id # l[j].subject_id}

\* output_dir_path / f"ERROR_sub_{subject_id}-ses_{session_id}.txt"
ExceptionFilePath(kwargs) ==
    [subject_id |-> kwargs.subject_id, session_id |-> kwargs.session_id]

\* open(exception_file_path, mode="w") and the two writes: the file holds
\* the kwargs under the protocol's label and the traceback of this attempt
WriteExceptionFile(files, path, label, attempt) ==
    {f \in files : f.path # path}
        \cup {[path |-> path, kwargs_of |-> label, traceback_of |-> attempt]}

\* the file sub-{subject_id}_ses-{session_id}.nwb a conversion writes; the
\* session_id is the protocol's
NwbFile(kwargs, protocol) == [subject_id |-> kwargs.subject_id, protocol |-> protocol]

\* where the loop goes after the first try statement
AfterFrequencies(raised) == "durations"

AfterDurations_Mut(raised, i, n) ==
    IF raised THEN "done" ELSE IF i < n THEN "frequencies" ELSE "done"

\* where the loop goes after the second try statement
AfterDurations(raised, i, n) == IF i < n THEN "frequencies" ELSE "done"

\* the loop is about to start on the sessions found
BatchInputs ==
    /\ session_to_nwb_kwargs_per_session \in SessionLists
    /\ b_pc = IF session_to_nwb_kwargs_per_session = <<>> THEN "done" ELSE "frequencies"
    /\ b_i = 1
    /\ b_attempts = <<>>
    /\ b_nwb_files = {}
    /\ b_exception_files = {}

FrequenciesReturns ==
    /\ b_pc = "frequencies"
    /\ LET kwargs == session_to_nwb_kwargs_per_session[b_i]
       IN  /\ b_attempts' = Append(b_attempts,
                 [session |-> b_i, protocol |-> "Varying frequencies", raised |-> FALSE])
           /\ b_nwb_files' = b_nwb_files \cup {NwbFile(kwargs, "Varying frequencies")}
    /\ b_pc' = AfterFrequencies(FALSE)
    /\ UNCHANGED <<session_to_nwb_kwargs_per_session, b_i, b_exception_files>>
    /\ UNCHANGED <<fvars, cvars, avars, svars, gvars, lvars, tvars, ivars, mvars>>

FrequenciesRaises ==
    /\ b_pc = "frequencies"
    /\ LET kwargs == session_to_nwb_kwargs_per_session[b_i]
       IN  /\ b_attempts' = Append(b_attempts,
                 [session |-> b_i, protocol |-> "Varying frequencies", raised |-> TRUE])
           /\ b_exception_files' =
                 WriteExceptionFile(b_exception_files, ExceptionFilePath(kwargs),
                                    "Varying frequencies", Len(b_attempts) + 1)
    /\ b_pc' = AfterFrequencies(TRUE)
    /\ UNCHANGED <<session_to_nwb_kwargs_per_session, b_i, b_nwb_files>>
    /\ UNCHANGED <<fvars, cvars, avars, svars, gvars, lvars, tvars, ivars, mvars>>

DurationsReturns ==
    /\ b_pc = "durations"
    /\ LET kwargs == session_to_nwb_kwargs_per_session[b_i]
           next   == AfterDurations(FALSE, b_i, Len(session_to_nwb_kwargs_per_session))
       IN  /\ b_attempts' = Append(b_attempts,
                 [session |-> b_i, protocol |-> "Varying durations", raised |-> FALSE])
           /\ b_nwb_files' = b_nwb_files \cup {NwbFile(kwargs, "Varying durations")}
           /\ b_pc' = next
           /\ b_i' = IF next = "frequencies" THEN b_i + 1 ELSE b_i
    /\ UNCHANGED <<session_to_nwb_kwargs_per_session, b_exception_files>>
    /\ UNCHANGED <<fvars, cvars, avars, svars, gvars, lvars, tvars, ivars, mvars>>

DurationsRaises ==
    /\ b_pc = "durations"
    /\ LET kwargs == session_to_nwb_kwargs_per_session[b_i]
           next   == AfterDurations(TRUE, b_i, Len(session_to_nwb_kwargs_per_session))
       IN  /\ b_attempts' = Append(b_attempts,
                 [session |-> b_i, protocol |-> "Varying durations", raised |-> TRUE])
           /\ b_exception_files' =
                 WriteExceptionFile(b_exception_files, ExceptionFilePath(kwargs),
                                    "Varying durations", Len(b_attempts) + 1)
           /\ b_pc' = next
           /\ b_i' = IF next = "frequencies" THEN b_i + 1 ELSE b_i
    /\ UNCHANGED <<session_to_nwb_kwargs_per_session, b_nwb_files>>
    /\ UNCHANGED <<fvars, cvars, avars, svars, gvars, lvars, tvars, ivars, mvars>>

BatchNext ==
    FrequenciesReturns \/ FrequenciesRaises \/ DurationsReturns \/ DurationsRaises

\* ------------------------------------------------------------------------
\* Stimulus interval tables (embargo_2025/utils/add_shock_stimuli.py,
\* lotfi_2025/interfaces/tdt_optogenetic_stimulus_interface.py).  Onsets and
\* offsets are whole seconds.
\* ------------------------------------------------------------------------
Channels == {"sms_", "ssm_", "s1s_"}

\* the k-th event of a channel: onset and offset as the reader reports them
EventPairs(n) == [k \in 1..n |-> [onset |-> 10 * k, offset |-> 10 * k + 4]]

\* tdt_events: any set of channels present, each with its events
TdtEvents ==
    UNION {[present -> {EventPairs(n) : n \in 1..MaxEvents}] :
               present \in SUBSET Channels}

\* the channels a metadata file or a caller lists: at least one, none twice
ListedChannels ==
    {l \in SeqsUpTo(Channels, Cardinality(Channels)) :
        /\ l # <<>>
        /\ \A i, j \in 1..Len(l) : i # j => l[i] # l[j]}

ResolveShockStream_Mut(stream_name, events) ==
    IF stream_name = "sms_" THEN "ssm_" ELSE stream_name

\* get_shock_stimulus_intervals_df: "sms_" is read from "ssm_" when absent
ResolveShockStream(stream_name, events) ==
    IF stream_name = "sms_" /\ stream_name \notin DOMAIN events
    THEN "ssm_"
    ELSE stream_name

\* one row per onset/offset pair of a channel that is present
ChannelIntervals(stream_name, events) ==
    [k \in 1..Len(events[stream_name]) |->
        [start_time |-> events[stream_name][k].onset,
         stop_time |-> events[stream_name][k].offset,
         stream_name |-> stream_name]]

RECURSIVE ShockRows(_, _)
ShockRows(names, events) ==
    IF names = <<>> THEN <<>>
    ELSE LET stream_name == ResolveShockStream(Head(names), events)
         IN  (IF stream_name \notin DOMAIN events
              THEN <<>>
              ELSE ChannelIntervals(stream_name, events))
                 \o ShockRows(Tail(names), events)

\* get_auditory_stimulus_intervals_df, and the loop of the optogenetic
\* interface over tdt_stimulus_channel_to_frequency
RECURSIVE PresentRows(_, _)
PresentRows(names, events) ==
    IF names = <<>> THEN <<>>
    ELSE (IF Head(names) \notin DOMAIN events
          THEN <<>>
          ELSE ChannelIntervals(Head(names), events))
             \o PresentRows(Tail(names), events)

\* the reader's events and the listed channels, before any table is added
StimuliInputs ==
    /\ s_pc = "idle"
    /\ tdt_events \in TdtEvents
    /\ stream_names \in ListedChannels
    /\ s_called = ""
    /\ nwb_stimulus = <<>>
    /\ stimulus_intervals_df = [raised |-> FALSE, rows |-> <<>>]

AddShockStimuli ==
    /\ s_pc = "idle"
    /\ LET rows == ShockRows(stream_names, tdt_events)
       IN  nwb_stimulus' =
               IF rows = <<>> THEN nwb_stimulus
               ELSE Append(nwb_stimulus, [name |-> "ShockStimulusInterval", rows |-> rows])
    /\ s_called' = "shock"
    /\ s_pc' = "done"
    /\ UNCHANGED <<tdt_events, stream_names, stimulus_intervals_df>>
    /\ UNCHANGED <<fvars, cvars, avars, bvars, gvars, lvars, tvars, ivars, mvars>>

AddAuditoryStimuli ==
    /\ s_pc = "idle"
    /\ LET rows == PresentRows(stream_names, tdt_events)
       IN  nwb_stimulus' =
               IF rows = <<>> THEN nwb_stimulus
               ELSE Append(nwb_stimulus, [name |-> "AuditoryStimulusInterval", rows |-> rows])
    /\ s_called' = "auditory"
    /\ s_pc' = "done"
    /\ UNCHANGED <<tdt_events, stream_names, stimulus_intervals_df>>
    /\ UNCHANGED <<fvars, cvars, avars, bvars, gvars, lvars, tvars, ivars, mvars>>

\* Lofti2025TDTOptogeneticStimulusInterface.add_to_nwbfile: the epochs table
\* is added whatever rows it holds
OptogeneticAddToNwbfile ==
    /\ s_pc = "idle"
    /\ nwb_stimulus' =
          Append(nwb_stimulus, [name |-> "OptogeneticEpochsTable",
                                rows |-> PresentRows(stream_names, tdt_events)])
    /\ s_called' = "optogenetic"
    /\ s_pc' = "done"
    /\ UNCHANGED <<tdt_events, stream_names, stimulus_intervals_df>>
    /\ UNCHANGED <<fvars, cvars, avars, bvars, gvars, lvars, tvars, ivars, mvars>>

ResolveStimulusStream_Mut(stream_name, events) ==
    IF stream_name \notin DOMAIN events THEN "ssm_" ELSE stream_name

\* get_stimulus_intervals_df of embargo_2025: "sms_" is read from "ssm_"
\* when the events hold no "sms_"
ResolveStimulusStream(stream_name, events) ==
    IF stream_name = "sms_" /\ stream_name \notin DOMAIN events
    THEN "ssm_"
    ELSE stream_name

\* tdt_events[stream_name] of a channel the events do not hold
StimulusKeyError(names, events) ==
    \E i \in 1..Len(names) : ResolveStimulusStream(names[i], events) \notin DOMAIN events

RECURSIVE StimulusRows(_, _)
StimulusRows(names, events) ==
    IF names = <<>> THEN <<>>
    ELSE ChannelIntervals(ResolveStimulusStream(Head(names), events), events)
             \o StimulusRows(Tail(names), events)

\* get_stimulus_intervals_df returns the rows of every listed channel
GetStimulusIntervalsDfReturns ==
    /\ s_pc = "idle"
    /\ ~StimulusKeyError(stream_names, tdt_events)
    /\ stimulus_intervals_df' =
          [raised |-> FALSE, rows |-> StimulusRows(stream_names, tdt_events)]
    /\ s_called' = "get_stimulus_intervals_df"
    /\ s_pc' = "df_returned"
    /\ UNCHANGED <<tdt_events, stream_names, nwb_stimulus>>
    /\ UNCHANGED <<fvars, cvars, avars, bvars, gvars, lvars, tvars, ivars, mvars>>

\* get_stimulus_intervals_df raises KeyError at the first channel absent
GetStimulusIntervalsDfRaises ==
    /\ s_pc = "idle"
    /\ StimulusKeyError(stream_names, tdt_events)
    /\ stimulus_intervals_df' = [raised |-> TRUE, rows |-> <<>>]
    /\ s_called' = "get_stimulus_intervals_df"
    /\ s_pc' = "df_raised"
    /\ UNCHANGED <<tdt_events, stream_names, nwb_stimulus>>
    /\ UNCHANGED <<fvars, cvars, avars, bvars, gvars, lvars, tvars, ivars, mvars>>

StimuliNext ==
    \/ AddShockStimuli
    \/ AddAuditoryStimuli
    \/ OptogeneticAddToNwbfile
    \/ GetStimulusIntervalsDfReturns
    \/ GetStimulusIntervalsDfRaises

\* ------------------------------------------------------------------------
\* Argument checks of embargo_2025: session_to_nwb (convert_session.py) and
\* TDTDemodulatedFiberPhotometryInterface.add_to_nwbfile
\* (interfaces/demodulated_tdt_interface.py).  A path is the sequence of its
\* components.
\* ------------------------------------------------------------------------
ValidProtocols == {"Varying durations", "Varying frequencies", "Shocks"}

ProtocolTypes == ValidProtocols \cup {"Habituation"}

\* Path(output_dir_path), with "nwb_stub" below it for a stub test
OutputDirPath(stub) == IF stub THEN <<"output", "nwb_stub">> ELSE <<"output">>

\* mkdir(parents=True, exist_ok=True)
Mkdir(disk, path) == disk \cup {SubSeq(path, 1, k) : k \in 1..Len(path)}

NwbfilePath(output_dir_path) == Append(output_dir_path, "sub-C4550_ses-1.nwb")

\* driver_freq values a caller passes: None, a negative one, zero, two valid ones
DriverFreqs == {<<>>, <<0 - 211>>, <<0>>, <<211>>, <<531>>}

\* name values a caller passes: None or the name of a series
SeriesNames == {<<>>, <<"calcium_signal">>}

DriverFreqRejected(freq) == IF freq = <<>> THEN TRUE ELSE freq[1] <= 0

NameRejected(name) == name = <<>>

\* the two calls as they start: the output directory may or may not exist
ConfigInputs ==
    /\ g_pc = "start"
    /\ protocol_type \in ProtocolTypes
    /\ g_stub_test \in BOOLEAN
    /\ g_disk_before \in {{}, {<<"output">>}}
    /\ g_disk = g_disk_before
    /\ g_conversion_runs = 0
    /\ d_pc = "call"
    /\ driver_freq \in DriverFreqs
    /\ d_name \in SeriesNames
    /\ d_stream_found \in BOOLEAN
    /\ d_loads = 0
    /\ d_series = <<>>

\* session_to_nwb, lines 23-28
MakeOutputDir ==
    /\ g_pc = "start"
    /\ g_disk' = Mkdir(g_disk, OutputDirPath(g_stub_test))
    /\ g_pc' = "dir_made"
    /\ UNCHANGED <<protocol_type, g_stub_test, g_disk_before, g_conversion_runs,
                   d_pc, driver_freq, d_name, d_stream_found, d_loads, d_series>>
    /\ UNCHANGED <<fvars, cvars, avars, bvars, svars, lvars, tvars, ivars, mvars>>

\* session_to_nwb, lines 30-32: ValueError
ProtocolRejected ==
    /\ g_pc = "dir_made"
    /\ protocol_type \notin ValidProtocols
    /\ g_pc' = "raised"
    /\ UNCHANGED <<protocol_type, g_stub_test, g_disk_before, g_disk, g_conversion_runs,
                   d_pc, driver_freq, d_name, d_stream_found, d_loads, d_series>>
    /\ UNCHANGED <<fvars, cvars, avars, bvars, svars, lvars, tvars, ivars, mvars>>

\* session_to_nwb, lines 30-57: the protocol's description and metadata
ProtocolAccepted ==
    /\ g_pc = "dir_made"
    /\ protocol_type \in ValidProtocols
    /\ g_pc' = "configured"
    /\ UNCHANGED <<protocol_type, g_stub_test, g_disk_before, g_disk, g_conversion_runs,
                   d_pc, driver_freq, d_name, d_stream_found, d_loads, d_series>>
    /\ UNCHANGED <<fvars, cvars, avars, bvars, svars, lvars, tvars, ivars, mvars>>

\* session_to_nwb, lines 59-112: the converter is built and run
RunConversion ==
    /\ g_pc = "configured"
    /\ g_conversion_runs' = g_conversion_runs + 1
    /\ g_disk' = g_disk \cup {NwbfilePath(OutputDirPath(g_stub_test))}
    /\ g_pc' = "converted"
    /\ UNCHANGED <<protocol_type, g_stub_test, g_disk_before,
                   d_pc, driver_freq, d_name, d_stream_found, d_loads, d_series>>
    /\ UNCHANGED <<fvars, cvars, avars, bvars, svars, lvars, tvars, ivars, mvars>>

\* add_to_nwbfile, lines 67-71: ValueError
ArgumentsRejected ==
    /\ d_pc = "call"
    /\ IF DriverFreqRejected(driver_freq) THEN TRUE ELSE NameRejected(d_name)
    /\ d_pc' = "raised"
    /\ UNCHANGED <<g_pc, protocol_type, g_stub_test, g_disk_before, g_disk,
                   g_conversion_runs, driver_freq, d_name, d_stream_found,
                   d_loads, d_series>>
    /\ UNCHANGED <<fvars, cvars, avars, bvars, svars, lvars, tvars, ivars, mvars>>

\* add_to_nwbfile, lines 67-74: the checks pass and the block is loaded
ArgumentsAccepted ==
    /\ d_pc = "call"
    /\ ~DriverFreqRejected(driver_freq)
    /\ ~NameRejected(d_name)
    /\ d_loads' = d_loads + 1
    /\ d_pc' = "loaded"
    /\ UNCHANGED <<g_pc, protocol_type, g_stub_test, g_disk_before, g_disk,
                   g_conversion_runs, driver_freq, d_name, d_stream_found, d_series>>
    /\ UNCHANGED <<fvars, cvars, avars, bvars, svars, lvars, tvars, ivars, mvars>>

\* add_to_nwbfile, lines 86-91: the raw modulated stream is not in the block
StreamMissing ==
    /\ d_pc = "loaded"
    /\ ~d_stream_found
    /\ d_pc' = "raised"
    /\ UNCHANGED <<g_pc, protocol_type, g_stub_test, g_disk_before, g_disk,
                   g_conversion_runs, driver_freq, d_name, d_stream_found,
                   d_loads, d_series>>
    /\ UNCHANGED <<fvars, cvars, avars, bvars, svars, lvars, tvars, ivars, mvars>>

\* add_to_nwbfile, lines 86-147: the demodulated series is added
AddDemodulatedSeries ==
    /\ d_pc = "loaded"
    /\ d_stream_found
    /\ d_series' = Append(d_series, d_name[1])
    /\ d_pc' = "written"
    /\ UNCHANGED <<g_pc, protocol_type, g_stub_test, g_disk_before, g_disk,
                   g_conversion_runs, driver_freq, d_name, d_stream_found, d_loads>>
    /\ UNCHANGED <<fvars, cvars, avars, bvars, svars, lvars, tvars, ivars, mvars>>

ConfigNext ==
    \/ MakeOutputDir \/ ProtocolRejected \/ ProtocolAccepted \/ RunConversion
    \/ ArgumentsRejected \/ ArgumentsAccepted \/ StreamMissing \/ AddDemodulatedSeries

\* ------------------------------------------------------------------------
\* Specifications
\* ------------------------------------------------------------------------
vars == <<fvars, cvars, avars, bvars, svars, gvars, lvars, tvars, ivars, mvars>>

\* no session object exists yet, the output file is empty
SessionNew ==
    /\ pc = "new"
    /\ session_start_datetimes = <<>>
    /\ segment_starting_times = <<>>
    /\ sst_set = FALSE
    /\ stream_rows = 0
    /\ stream_indices = NoIndices
    /\ fill_gaps = FALSE
    /\ stub_test = FALSE
    /\ t1 = 0
    /\ t2 = 0
    /\ t2_arg = 0
    /\ timing_kwargs = NoTimingKwargs
    /\ seg_i = 0
    /\ seg_lens = <<>>
    /\ loads = <<>>
    /\ tdt_fs = 0
    /\ seg_fs = <<>>
    /\ fill_calls = 0
    /\ concatenated_data = <<>>
    /\ concatenated_timestamps = <<>>
    /\ nwb_lab_meta_data = FALSE
    /\ nwb_trials = <<>>
    /\ nwb_acquisition = <<>>

\* ------------------------------------------------------------------------
\* The session functions of lotfi_2025 (convert_session.py):
\* varying_frequencies_session_to_nwb and varying_durations_session_to_nwb,
\* from the search for the raw TDT folders to run_conversion.
\* ------------------------------------------------------------------------
StimulusLocations == {"PPN", "STN"}

\* an entry of the optogenetics metadata: its name (or the effector a sites
\* row names) holds one stimulus location
OptoEntries == [site : StimulusLocations, n : 1..2]

\* `stimulus_location in item["name"]`
NameHolds(location, item) == item.site = location

\* the lists the yaml file may hold for one of the three keys
OptoLists(entries) == SeqsUpTo(entries, MaxItems)

OptoMetadataFiles ==
    [OptogeneticEffectors : OptoLists({e \in OptoEntries : e.site = "STN" \/ e.n = 1}),
     OptogeneticVirusInjections : OptoLists({e \in OptoEntries : e.n = 1}),
     OptogeneticSitesTable : OptoLists({e \in OptoEntries : e.n = 1})]

\* list.remove(item): the first element equal to item goes
RemoveFirst(list, item) ==
    LET k == CHOOSE j \in 1..Len(list) :
                 /\ list[j] = item
                 /\ \A h \in 1..(j - 1) : list[h] # item
    IN  SubSeq(list, 1, k - 1) \o SubSeq(list, k + 1, Len(list))

\* `for item in list: if stimulus_location not in item[...]: list.remove(item)`
\* the iterator keeps an index into the list that is being shortened; i is
\* that index, counting from 1
RECURSIVE RemoveWhileIterating(_, _, _)
RemoveWhileIterating(list, i, location) ==
    IF i > Len(list) THEN list
    ELSE IF ~NameHolds(location, list[i])
         THEN RemoveWhileIterating(RemoveFirst(list, list[i]), i + 1, location)
         ELSE RemoveWhileIterating(list, i + 1, location)

\* the three loops that remove the entries of other stimulus sites
RemoveOtherSites(metadata, location) ==
    [OptogeneticEffectors |->
         RemoveWhileIterating(metadata.OptogeneticEffectors, 1, location),
     OptogeneticVirusInjections |->
         RemoveWhileIterating(metadata.OptogeneticVirusInjections, 1, location),
     OptogeneticSitesTable |->
         RemoveWhileIterating(metadata.OptogeneticSitesTable, 1, location)]

TdtFoldersAccepted_Mut(function, found) == found >= 1

\* varying_durations wants one TDT folder; varying_frequencies takes the
\* first of those it finds
TdtFoldersAccepted(function, found) ==
    IF function = "varying_durations" THEN found = 1 ELSE found >= 1

\* the exception for a number of TDT folders that is not accepted
TdtFoldersError(function, found) ==
    IF function = "varying_durations"
    THEN (IF found = 0 THEN "FileNotFoundError" ELSE "ValueError")
    ELSE "IndexError"

\* a session function is called on a data directory
LotfiSessionInputs ==
    /\ l_pc = "start"
    /\ l_function \in {"varying_frequencies", "varying_durations"}
    /\ tdt_folder_paths \in 0..MaxFolders
    /\ mat_file_paths \in 0..MaxMatFiles
    /\ l_error = ""
    /\ stimulus_location \in StimulusLocations
    /\ opto_metadata_loaded = <<>>
    /\ opto_metadata = <<>>
    /\ l_conversion_runs = 0

TdtFoldersFound ==
    /\ l_pc = "start"
    /\ TdtFoldersAccepted(l_function, tdt_folder_paths)
    /\ l_pc' = "folders_found"
    /\ UNCHANGED <<l_function, tdt_folder_paths, mat_file_paths, l_error,
                   stimulus_location, opto_metadata_loaded, opto_metadata,
                   l_conversion_runs>>
    /\ UNCHANGED <<fvars, cvars, avars, bvars, svars, gvars, tvars, ivars, mvars>>

TdtFoldersRejected ==
    /\ l_pc = "start"
    /\ ~TdtFoldersAccepted(l_function, tdt_folder_paths)
    /\ l_error' = TdtFoldersError(l_function, tdt_folder_paths)
    /\ l_pc' = "raised"
    /\ UNCHANGED <<l_function, tdt_folder_paths, mat_file_paths,
                   stimulus_location, opto_metadata_loaded, opto_metadata,
                   l_conversion_runs>>
    /\ UNCHANGED <<fvars, cvars, avars, bvars, svars, gvars, tvars, ivars, mvars>>

MatFileFound ==
    /\ l_pc = "folders_found"
    /\ mat_file_paths = 1
    /\ l_pc' = "mat_found"
    /\ UNCHANGED <<l_function, tdt_folder_paths, mat_file_paths, l_error,
                   stimulus_location, opto_metadata_loaded, opto_metadata,
                   l_conversion_runs>>
    /\ UNCHANGED <<fvars, cvars, avars, bvars, svars, gvars, tvars, ivars, mvars>>

MatFileRejected ==
    /\ l_pc = "folders_found"
    /\ mat_file_paths # 1
    /\ l_error' = IF mat_file_paths = 0 THEN "FileNotFoundError" ELSE "ValueError"
    /\ l_pc' = "raised"
    /\ UNCHANGED <<l_function, tdt_folder_paths, mat_file_paths,
                   stimulus_location, opto_metadata_loaded, opto_metadata,
                   l_conversion_runs>>
    /\ UNCHANGED <<fvars, cvars, avars, bvars, svars, gvars, tvars, ivars, mvars>>

\* the converter is built and its metadata updated from the yaml file
LoadMetadata ==
    /\ l_pc = "mat_found"
    /\ \E file \in OptoMetadataFiles :
          /\ opto_metadata_loaded' = file
          /\ opto_metadata' = file
    /\ l_pc' = "metadata_loaded"
    /\ UNCHANGED <<l_function, tdt_folder_paths, mat_file_paths, l_error,
                   stimulus_location, l_conversion_runs>>
    /\ UNCHANGED <<fvars, cvars, avars, bvars, svars, gvars, tvars, ivars, mvars>>

RemoveOtherStimulusSites ==
    /\ l_pc = "metadata_loaded"
    /\ opto_metadata' = RemoveOtherSites(opto_metadata, stimulus_location)
    /\ l_pc' = "filtered"
    /\ UNCHANGED <<l_function, tdt_folder_paths, mat_file_paths, l_error,
                   stimulus_location, opto_metadata_loaded, l_conversion_runs>>
    /\ UNCHANGED <<fvars, cvars, avars, bvars, svars, gvars, tvars, ivars, mvars>>

LotfiRunConversion ==
    /\ l_pc = "filtered"
    /\ l_conversion_runs' = l_conversion_runs + 1
    /\ l_pc' = "converted"
    /\ UNCHANGED <<l_function, tdt_folder_paths, mat_file_paths, l_error,
                   stimulus_location, opto_metadata_loaded, opto_metadata>>
    /\ UNCHANGED <<fvars, cvars, avars, bvars, svars, gvars, tvars, ivars, mvars>>

LotfiSessionNext ==
    \/ TdtFoldersFound
    \/ TdtFoldersRejected
    \/ MatFileFound
    \/ MatFileRejected
    \/ LoadMetadata
    \/ RemoveOtherStimulusSites
    \/ LotfiRunConversion

\* ------------------------------------------------------------------------
\* get_fiber_photometry_table (lotfi_2025/interfaces: the same function in
\* concatenated_tdt_fp_interface.py and demodulated_fp_interface.py), called
\* by the interfaces of one converter on one file with one metadata.
\* ------------------------------------------------------------------------
\* metadata["Ophys"]["FiberPhotometry"]: the table's name, the number of its
\* rows, of the indicators and of the devices (models, devices and fibers)
FiberPhotometryMetadata ==
    [name : {"FiberPhotometryTable"},
     rows : 0..MaxTableRows,
     indicators : 0..MaxIndicators,
     devices : 0..MaxDevices]

TableExists_Mut(lab_meta_data, metadata) == FALSE

\* the file holds a fiber_photometry object whose table has the metadata's
\* name and number of rows
TableExists(lab_meta_data, metadata) ==
    \E k \in 1..Len(lab_meta_data) :
        /\ lab_meta_data[k].name = "fiber_photometry"
        /\ lab_meta_data[k].table_name = metadata.name
        /\ lab_meta_data[k].rows = metadata.rows

ExistingTable(lab_meta_data) ==
    LET k == CHOOSE j \in 1..Len(lab_meta_data) : lab_meta_data[j].name = "fiber_photometry"
    IN  lab_meta_data[k].table

\* an empty file and the metadata of the session
TableInputs ==
    /\ t_pc = "ready"
    /\ fp_metadata \in FiberPhotometryMetadata
    /\ t_lab_meta_data = <<>>
    /\ t_devices = 0
    /\ t_tables_made = 0
    /\ t_returned = <<>>

\* the table is there: it is returned and nothing is added
GetFiberPhotometryTableGets ==
    /\ t_pc = "ready"
    /\ Len(t_returned) < MaxCalls
    /\ TableExists(t_lab_meta_data, fp_metadata)
    /\ t_returned' = Append(t_returned, ExistingTable(t_lab_meta_data))
    /\ UNCHANGED <<t_pc, fp_metadata, t_lab_meta_data, t_devices, t_tables_made>>
    /\ UNCHANGED <<fvars, cvars, avars, bvars, svars, gvars, lvars, ivars, mvars>>

\* devices, indicators, the table with its rows and the lab metadata object
\* are added, and the new table is returned
GetFiberPhotometryTableCreates ==
    /\ t_pc = "ready"
    /\ Len(t_returned) < MaxCalls
    /\ ~TableExists(t_lab_meta_data, fp_metadata)
    /\ fp_metadata.indicators > 0
    /\ t_devices' = t_devices + fp_metadata.devices
    /\ t_tables_made' = t_tables_made + 1
    /\ t_lab_meta_data' =
          Append(t_lab_meta_data,
                 [name |-> "fiber_photometry",
                  table |-> t_tables_made + 1,
                  table_name |-> fp_metadata.name,
                  rows |-> fp_metadata.rows,
                  indicators |-> fp_metadata.indicators])
    /\ t_returned' = Append(t_returned, t_tables_made + 1)
    /\ UNCHANGED <<t_pc, fp_metadata>>
    /\ UNCHANGED <<fvars, cvars, avars, bvars, svars, gvars, lvars, ivars, mvars>>

\* no indicator in the metadata: ValueError, after the devices were added
GetFiberPhotometryTableRaises ==
    /\ t_pc = "ready"
    /\ Len(t_returned) < MaxCalls
    /\ ~TableExists(t_lab_meta_data, fp_metadata)
    /\ fp_metadata.indicators = 0
    /\ t_devices' = t_devices + fp_metadata.devices
    /\ t_pc' = "raised"
    /\ UNCHANGED <<fp_metadata, t_lab_meta_data, t_tables_made, t_returned>>
    /\ UNCHANGED <<fvars, cvars, avars, bvars, svars, gvars, lvars, ivars, mvars>>

TableNext ==
    \/ GetFiberPhotometryTableGets
    \/ GetFiberPhotometryTableCreates
    \/ GetFiberPhotometryTableRaises

\* ------------------------------------------------------------------------
\* The timestamps of Lofti2025DemodulatedFiberPhotometryInterface
\* (lotfi_2025/interfaces/demodulated_fp_interface.py).  Times are ticks.
\* ------------------------------------------------------------------------
NoTimestampsCall ==
    [made |-> FALSE, t1 |-> 0, t2 |-> 0, raised |-> "", value |-> <<>>]

\* the arrays a caller may hand to set_aligned_timestamps: increasing times
AlignedArrays ==
    {a \in SeqsUpTo(0..MaxStamp, MaxLen) :
        \A k \in 1..(Len(a) - 1) : a[k] < a[k + 1]}

\* np.arange(0.0, num_samples / rate, 1 / rate)
GetOriginalTimestamps(num_samples, interval) ==
    [k \in 1..num_samples |-> (k - 1) * interval]

\* timestamps[timestamps >= t1], then timestamps[timestamps < t2] unless t2 is 0
RestrictTimestamps(timestamps, t1v, t2v) ==
    LET from_t1 == SelectSeq(timestamps, LAMBDA t : t >= t1v)
    IN  IF t2v # 0 THEN SelectSeq(from_t1, LAMBDA t : t < t2v) ELSE from_t1

\* get_num_samples: self._extract_signal() is called without the
\* stimulus_channel_name it requires while _num_samples is None
GetNumSamples(num_samples) ==
    IF num_samples = <<>>
    THEN [raised |-> "TypeError", value |-> 0]
    ELSE [raised |-> "", value |-> num_samples[1]]

\* the interface as __init__ leaves it
TimestampsInputs ==
    /\ i_pc = "constructed"
    /\ i_file_samples \in 1..MaxLen
    /\ i_interval \in 1..2
    /\ i_starting_time = 0
    /\ i_num_samples = <<>>
    /\ aligned_timestamps = <<>>
    /\ i_result = NoTimestampsCall

SetAlignedStartingTime ==
    /\ i_pc = "constructed"
    /\ \E aligned_starting_time \in 0..MaxStamp :
          i_starting_time' = aligned_starting_time
    /\ i_result' = NoTimestampsCall
    /\ UNCHANGED <<i_pc, i_file_samples, i_interval, i_num_samples, aligned_timestamps>>
    /\ UNCHANGED <<fvars, cvars, avars, bvars, svars, gvars, lvars, tvars, mvars>>

SetAlignedTimestamps ==
    /\ i_pc = "constructed"
    /\ \E array \in AlignedArrays : aligned_timestamps' = <<array>>
    /\ i_result' = NoTimestampsCall
    /\ UNCHANGED <<i_pc, i_file_samples, i_interval, i_starting_time, i_num_samples>>
    /\ UNCHANGED <<fvars, cvars, avars, bvars, svars, gvars, lvars, tvars, mvars>>

GetTimestamps ==
    /\ i_pc = "constructed"
    /\ \E t1v \in 0..MaxStamp, t2v \in 0..MaxStamp :
          IF aligned_timestamps # <<>>
          THEN i_result' = [made |-> TRUE, t1 |-> t1v, t2 |-> t2v, raised |-> "",
                            value |-> RestrictTimestamps(aligned_timestamps[1], t1v, t2v)]
          ELSE LET num_samples == GetNumSamples(i_num_samples)
               IN  IF num_samples.raised # ""
                   THEN i_result' = [made |-> TRUE, t1 |-> t1v, t2 |-> t2v,
                                     raised |-> num_samples.raised, value |-> <<>>]
                   ELSE i_result' =
                          [made |-> TRUE, t1 |-> t1v, t2 |-> t2v, raised |-> "",
                           value |-> RestrictTimestamps(
                               [k \in 1..num_samples.value |->
                                   GetOriginalTimestamps(num_samples.value, i_interval)[k]
                                       + i_starting_time],
                               t1v, t2v)]
    /\ UNCHANGED <<i_pc, i_file_samples, i_interval, i_starting_time, i_num_samples,
                   aligned_timestamps>>
    /\ UNCHANGED <<fvars, cvars, avars, bvars, svars, gvars, lvars, tvars, mvars>>

TimestampsNext == SetAlignedStartingTime \/ SetAlignedTimestamps \/ GetTimestamps

\* ------------------------------------------------------------------------
\* get_demodulated_signals (embargo_2025/utils/get_demodulated_signals.py)
\* and demodulate_signal (lotfi_2025/utils/demodulate_fp_signal.py).  The
\* real-valued arithmetic is outside the model: a demodulated sample is the
\* term that names its index, the sampling rate and the driver frequency.
\* ------------------------------------------------------------------------
CalciumDriverFreq == 330
IsosbesticDriverFreq == 210
CutoffFreq == 6

\* signal.filtfilt pads each end with 3 * max(len(a), len(b)) samples of the
\* input, for the three coefficients of an order 2 filter
PadLen == 9

\* the sampling rates (Hz) drawn for the raw stream
RawSamplingRates == {12, 6103, 24414}

\* the raw stream: n samples with a short repeating pattern
RawSignals ==
    {[k \in 1..n |-> (k * m) % 3] : n \in 0..MaxSamples, m \in 1..2}

\* signal.butter wants 0 < Wn < 1 for Wn = cutoff_freq / (fs_raw / 2)
ButterAccepts(fs, cutoff) == 2 * cutoff < fs

\* signal.filtfilt wants more samples than it pads with
FiltfiltAccepts(raw) == Len(raw) > PadLen

DemodulateSignal_Mut(raw, fs, freq, cutoff) ==
    [k \in 1..(Len(raw) - 1) |-> [index |-> k, fs |-> fs, driver_freq |-> freq]]

\* demodulate_signal: one output sample per raw sample
DemodulateSignal(raw, fs, freq, cutoff) ==
    [k \in 1..Len(raw) |-> [index |-> k - 1, fs |-> fs, driver_freq |-> freq]]

DemodulateCall(raw, fs, freq, cutoff) ==
    [raw_signal |-> raw, fs_raw |-> fs, driver_freq |-> freq,
     cutoff_freq |-> cutoff]

NoSignals == [calcium_signal |-> <<>>, isosbestic_signal |-> <<>>, timestamps |-> <<>>]

\* the stream the TDT interface holds when get_demodulated_signals is called
DemodInputs ==
    /\ m_pc = "call"
    /\ raw_signal \in RawSignals
    /\ fs_raw \in RawSamplingRates
    /\ m_timestamps = [k \in 1..Len(raw_signal) |-> k - 1]
    /\ m_calls = <<>>
    /\ m_result = NoSignals
    /\ m_amplitude = 0
    /\ m_driver_freq = 0
    /\ demodulated_signal = <<>>

DemodulateCalcium ==
    /\ m_pc = "call"
    /\ ButterAccepts(fs_raw, CutoffFreq)
    /\ FiltfiltAccepts(raw_signal)
    /\ m_calls' = Append(m_calls,
                         DemodulateCall(raw_signal, fs_raw, CalciumDriverFreq, CutoffFreq))
    /\ m_result' = [m_result EXCEPT !.calcium_signal =
                       DemodulateSignal(raw_signal, fs_raw, CalciumDriverFreq, CutoffFreq)]
    /\ m_pc' = "calcium"
    /\ UNCHANGED <<raw_signal, fs_raw, m_timestamps>>
    /\ UNCHANGED <<m_amplitude, m_driver_freq, demodulated_signal>>
    /\ UNCHANGED <<fvars, cvars, avars, bvars, svars, gvars, lvars, tvars, ivars>>

\* the first demodulate_signal call raises ValueError in butter or filtfilt
DemodulateRaises ==
    /\ m_pc = "call"
    /\ ~(ButterAccepts(fs_raw, CutoffFreq) /\ FiltfiltAccepts(raw_signal))
    /\ m_calls' = Append(m_calls,
                         DemodulateCall(raw_signal, fs_raw, CalciumDriverFreq, CutoffFreq))
    /\ m_pc' = "raised"
    /\ UNCHANGED <<raw_signal, fs_raw, m_timestamps, m_result>>
    /\ UNCHANGED <<m_amplitude, m_driver_freq, demodulated_signal>>
    /\ UNCHANGED <<fvars, cvars, avars, bvars, svars, gvars, lvars, tvars, ivars>>

DemodulateIsosbestic ==
    /\ m_pc = "calcium"
    /\ m_calls' = Append(m_calls,
                         DemodulateCall(raw_signal, fs_raw, IsosbesticDriverFreq, CutoffFreq))
    /\ m_result' = [m_result EXCEPT !.isosbestic_signal =
                       DemodulateSignal(raw_signal, fs_raw, IsosbesticDriverFreq, CutoffFreq)]
    /\ m_pc' = "isosbestic"
    /\ UNCHANGED <<raw_signal, fs_raw, m_timestamps>>
    /\ UNCHANGED <<m_amplitude, m_driver_freq, demodulated_signal>>
    /\ UNCHANGED <<fvars, cvars, avars, bvars, svars, gvars, lvars, tvars, ivars>>

\* the stream's timestamps are read once and returned with both signals
ReturnSignals ==
    /\ m_pc = "isosbestic"
    /\ m_result' = [m_result EXCEPT !.timestamps = m_timestamps]
    /\ m_pc' = "returned"
    /\ UNCHANGED <<raw_signal, fs_raw, m_timestamps, m_calls>>
    /\ UNCHANGED <<m_amplitude, m_driver_freq, demodulated_signal>>
    /\ UNCHANGED <<fvars, cvars, avars, bvars, svars, gvars, lvars, tvars, ivars>>

DemodNext ==
    DemodulateCalcium \/ DemodulateRaises \/ DemodulateIsosbestic \/ ReturnSignals

\* ------------------------------------------------------------------------
\* demodulate_signal on a carrier A*cos(2*pi*driver_freq*t) sampled at
\* fs_raw = 4 * driver_freq: there the two references take the values
\* 1, 0, -1, 0 and 0, 1, 0, -1, and the products are integers.  The output
\* is the one the filter has settled to.
\* ------------------------------------------------------------------------
\* np.cos(2 * np.pi * driver_freq * t) at t = k / (4 * driver_freq)
CosRef(k) == CASE k % 4 = 0 -> 1 [] k % 4 = 1 -> 0 [] k % 4 = 2 -> 0 - 1 [] OTHER -> 0

\* np.sin(2 * np.pi * driver_freq * t) at t = k / (4 * driver_freq)
SinRef(k) == CASE k % 4 = 0 -> 0 [] k % 4 = 1 -> 1 [] k % 4 = 2 -> 0 [] OTHER -> 0 - 1

\* the synthetic raw signal with constant envelope
Carrier(amplitude, n) == [k \in 1..n |-> amplitude * CosRef(k - 1)]

\* the sample next to x[k] on the given side; at an end of the array the
\* sample of the other side stands in
Neighbour(x, k, side) ==
    IF k + side \in 1..Len(x) THEN x[k + side] ELSE x[k - side]

\* the low-pass of signal.butter(2, ...) run by signal.filtfilt, once
\* settled, on the products this carrier gives (a constant plus a component
\* at half the sampling rate): the filter's numerator is a multiple of
\* (1 + 1/z)^2, forward and backward it has no phase, and its gain for a
\* constant is 1
LowPassSettled(x) ==
    [k \in 1..Len(x) |-> (Neighbour(x, k, 0 - 1) + 2 * x[k] + Neighbour(x, k, 1)) \div 4]

\* np.sqrt on the whole numbers the model meets
Sqrt(n) == CHOOSE r \in 0..n : r * r <= n /\ n < (r + 1) * (r + 1)

\* demodulate_signal
DemodulateSettled(raw) ==
    LET sin_component == [k \in 1..Len(raw) |-> raw[k] * SinRef(k - 1)]
        cos_component == [k \in 1..Len(raw) |-> raw[k] * CosRef(k - 1)]
        filtered_sin == LowPassSettled(sin_component)
        filtered_cos == LowPassSettled(cos_component)
    IN  [k \in 1..Len(raw) |->
            Sqrt(filtered_sin[k] * filtered_sin[k] + filtered_cos[k] * filtered_cos[k])]

\* a carrier of even amplitude, long enough for filtfilt
CarrierInputs ==
    /\ m_pc = "carrier"
    /\ m_amplitude \in {2 * a : a \in 0..MaxAmplitude}
    /\ m_driver_freq \in {CalciumDriverFreq, IsosbesticDriverFreq}
    /\ fs_raw = 4 * m_driver_freq
    /\ \E n \in (PadLen + 1)..MaxSamples : raw_signal = Carrier(m_amplitude, n)
    /\ m_timestamps = <<>>
    /\ m_calls = <<>>
    /\ m_result = NoSignals
    /\ demodulated_signal = <<>>

DemodulateCarrier ==
    /\ m_pc = "carrier"
    /\ ButterAccepts(fs_raw, CutoffFreq)
    /\ FiltfiltAccepts(raw_signal)
    /\ demodulated_signal' = DemodulateSettled(raw_signal)
    /\ m_pc' = "demodulated"
    /\ UNCHANGED <<raw_signal, fs_raw, m_timestamps, m_calls, m_result,
                   m_amplitude, m_driver_freq>>
    /\ UNCHANGED <<fvars, cvars, avars, bvars, svars, gvars, lvars, tvars, ivars>>

CarrierNext == DemodulateCarrier

\* no direct call of fill_gaps_w_nans is pending
FillIdle ==
    /\ fg_data = <<>>
    /\ fg_timestamps = <<>>
    /\ fg_rate = 0
    /\ fg_pc = "idle"
    /\ fg_out = NoOutput

\* the components added for the session functions, the table, the
\* demodulated interface and the demodulation are not in use
OthersIdle == LotfiSessionIdle /\ TableIdle /\ TimestampsIdle /\ DemodIdle

\* one conversion of a multi-segment session
Init == SessionNew /\ FillIdle /\ VideoIdle /\ BatchIdle /\ StimuliIdle /\ ConfigIdle
        /\ OthersIdle

Next == Construct \/ BeginAdd \/ LoadSegment \/ FillAndWrite

Spec == Init /\ [][Next]_vars

\* direct calls of fill_gaps_w_nans on drawn arrays
FillInit == FillInputs /\ SessionNew /\ VideoIdle /\ BatchIdle /\ StimuliIdle /\ ConfigIdle
        /\ OthersIdle

SpecFillGaps == FillInit /\ [][FillNext]_vars

\* the video lookups and the temporal alignment of one session
VideoInit ==
    VideoInputs /\ SessionNew /\ FillIdle /\ BatchIdle /\ StimuliIdle /\ ConfigIdle
        /\ OthersIdle

SpecVideo == VideoInit /\ [][VideoNext]_vars

\* one run of the loop of dataset_to_nwb
BatchInit ==
    BatchInputs /\ SessionNew /\ FillIdle /\ VideoIdle /\ StimuliIdle /\ ConfigIdle
        /\ OthersIdle

SpecBatch == BatchInit /\ [][BatchNext]_vars

\* one call of one of the three functions that add stimulus intervals
StimuliInit ==
    StimuliInputs /\ SessionNew /\ FillIdle /\ VideoIdle /\ BatchIdle /\ ConfigIdle
        /\ OthersIdle

SpecStimuli == StimuliInit /\ [][StimuliNext]_vars

\* one call of session_to_nwb and one of the demodulating add_to_nwbfile
ConfigInit ==
    ConfigInputs /\ SessionNew /\ FillIdle /\ VideoIdle /\ BatchIdle /\ StimuliIdle
        /\ OthersIdle

SpecConfig == ConfigInit /\ [][ConfigNext]_vars

\* one call of one of the two session functions of lotfi_2025
LotfiSessionInit ==
    LotfiSessionInputs /\ SessionNew /\ FillIdle /\ VideoIdle /\ BatchIdle
        /\ StimuliIdle /\ ConfigIdle /\ TableIdle /\ TimestampsIdle /\ DemodIdle

SpecLotfiSession == LotfiSessionInit /\ [][LotfiSessionNext]_vars

\* calls of get_fiber_photometry_table on one file
TableInit ==
    TableInputs /\ SessionNew /\ FillIdle /\ VideoIdle /\ BatchIdle
        /\ StimuliIdle /\ ConfigIdle /\ LotfiSessionIdle /\ TimestampsIdle /\ DemodIdle

SpecTable == TableInit /\ [][TableNext]_vars

\* calls of the timestamp methods of one demodulated interface
TimestampsInit ==
    TimestampsInputs /\ SessionNew /\ FillIdle /\ VideoIdle /\ BatchIdle
        /\ StimuliIdle /\ ConfigIdle /\ LotfiSessionIdle /\ TableIdle /\ DemodIdle

SpecTimestamps == TimestampsInit /\ [][TimestampsNext]_vars

\* one call of get_demodulated_signals
DemodInit ==
    DemodInputs /\ SessionNew /\ FillIdle /\ VideoIdle /\ BatchIdle
        /\ StimuliIdle /\ ConfigIdle /\ LotfiSessionIdle /\ TableIdle /\ TimestampsIdle

SpecDemod == DemodInit /\ [][DemodNext]_vars

\* one call of demodulate_signal on a synthetic carrier
CarrierInit ==
    CarrierInputs /\ SessionNew /\ FillIdle /\ VideoIdle /\ BatchIdle
        /\ StimuliIdle /\ ConfigIdle /\ LotfiSessionIdle /\ TableIdle /\ TimestampsIdle

SpecCarrier == CarrierInit /\ [][CarrierNext]_vars

\* ------------------------------------------------------------------------
\* Properties of the concatenating interface (checked under Spec)
\* ------------------------------------------------------------------------
StartsStrictlyIncreasing ==
    \A i \in 1..(NumSegments - 1) :
        DatetimeLess(session_start_datetimes[i], session_start_datetimes[i + 1])

OutputEmpty ==
    /\ ~nwb_lab_meta_data
    /\ nwb_trials = <<>>
    /\ nwb_acquisition = <<>>

\* C1: constructing the interface with start times that are not strictly
\* increasing (a later segment starting earlier than, or at the same time as,
\* the previous one) fails, segment_starting_times is never set and nothing is
\* added to any output.
C1_NonIncreasingStartsRejected ==
    (pc # "new" /\ ~StartsStrictlyIncreasing)
        => /\ pc = "ctor_failed"
           /\ ~sst_set
           /\ OutputEmpty

\* C2: for every accepted list of segments segment_starting_times[i] is
\* start_time[i] minus start_time[0] in seconds, so segment_starting_times[0]
\* is 0, and starts at 10:00:00, 10:20:00, 10:40:00 give [0, 1200, 2400].
C2_SegmentOffsets ==
    sst_set =>
        /\ Len(segment_starting_times) = NumSegments
        /\ segment_starting_times[1] = 0
        /\ \A i \in 1..NumSegments :
              segment_starting_times[i]
                 = 3600 * (session_start_datetimes[i].h - session_start_datetimes[1].h)
                   + 60 * (session_start_datetimes[i].m - session_start_datetimes[1].m)
                   + (session_start_datetimes[i].s - session_start_datetimes[1].s)
        /\ session_start_datetimes = << [h |-> 10, m |-> 0, s |-> 0],
                                        [h |-> 10, m |-> 20, s |-> 0],
                                        [h |-> 10, m |-> 40, s |-> 0] >>
              => segment_starting_times = <<0, 1200, 2400>>

C2_Witness ==
    /\ pc = "constructed"
    /\ sst_set
    /\ session_start_datetimes = << [h |-> 10, m |-> 0, s |-> 0],
                                    [h |-> 10, m |-> 20, s |-> 0],
                                    [h |-> 10, m |-> 40, s |-> 0] >>
    /\ segment_starting_times[3] = 2400

\* C3: for every list of segments the ordering check accepts (each segment's
\* own timestamps strictly increasing) the concatenated timestamp array built
\* by add_to_nwbfile is non-decreasing, also across every segment boundary.
C3_ConcatenatedTimestampsMonotone ==
    pc \in {"loop", "done"} =>
        \A j \in 1..(Len(concatenated_timestamps) - 1) :
            concatenated_timestamps[j] <= concatenated_timestamps[j + 1]

CountNaN(d) == Cardinality({j \in 1..Len(d) : d[j] = NaN})

\* C4: concatenating two segments of N1 and N2 samples yields a data array and
\* a timestamp array of exactly N1+N2 entries each before gap filling, and of
\* N1+N2 plus the number of inserted sentinels after gap filling.  (Stated
\* here for two segments in strictly increasing order, both read.)
C4_ConcatenatedLengths ==
    (/\ NumSegments = 2
     /\ StartsStrictlyIncreasing
     /\ pc \in {"loop", "done"}
     /\ Len(seg_lens) = 2) =>
        /\ Len(concatenated_data) = seg_lens[1] + seg_lens[2]
        /\ Len(concatenated_timestamps) = seg_lens[1] + seg_lens[2]
        /\ (pc = "done" /\ fill_gaps) =>
              /\ Len(nwb_acquisition[1].data)
                    = seg_lens[1] + seg_lens[2] + CountNaN(nwb_acquisition[1].data)
              /\ Len(nwb_acquisition[1].timestamps) = Len(nwb_acquisition[1].data)

\* position in the concatenated arrays just before the first sample of segment i
RECURSIVE SegmentOffset(_)
SegmentOffset(i) == IF i <= 1 THEN 0 ELSE SegmentOffset(i - 1) + seg_lens[i - 1]

\* the trial rows are the first and last shifted timestamp of every segment, in
\* order, each tagged with its segment
TrialsMarkSegments ==
    /\ Len(nwb_trials) = NumSegments
    /\ \A i \in 1..NumSegments :
          /\ nwb_trials[i].start_time = concatenated_timestamps[SegmentOffset(i) + 1]
          /\ nwb_trials[i].stop_time
                = concatenated_timestamps[SegmentOffset(i) + seg_lens[i]]
          /\ nwb_trials[i].tags = i

C15_FillOnceOverWholeArray ==
    /\ pc = "loop" => fill_calls = 0
    /\ (pc = "done" /\ fill_gaps) =>
          LET series == nwb_acquisition[1]
              pos    == SelectSeq([j \in 1..Len(series.data) |-> j],
                                  LAMBDA j : series.data[j] # NaN)
          IN  /\ fill_calls = 1
              /\ [i \in 1..Len(pos) |-> series.data[pos[i]]] = concatenated_data
              /\ [i \in 1..Len(pos) |-> series.timestamps[pos[i]]] = concatenated_timestamps
              /\ \A j \in 1..(Len(series.timestamps) - 1) :
                    (series.timestamps[j + 1] - series.timestamps[j]) * tdt_fs
                        < 2 * TicksPerSec
              /\ IF NumSegments >= 2 THEN TrialsMarkSegments ELSE nwb_trials = <<>>

C15_Witness ==
    /\ pc = "done"
    /\ fill_gaps
    /\ fill_calls = 1
    /\ NumSegments = 2
    /\ seg_lens = <<2, 2>>
    /\ Len(nwb_acquisition[1].data) > 4
    /\ nwb_acquisition[1].data[3] = NaN
    /\ nwb_trials[1].stop_time < nwb_acquisition[1].timestamps[3]

\* C18: when the segments of a session report different sampling rates for the
\* stream, add_to_nwbfile raises instead of concatenating and gap-filling them
\* with a single rate.
C18_MixedRatesRejected ==
    pc = "done" => \A i, j \in 1..Len(seg_fs) : seg_fs[i] = seg_fs[j]

\* C25: with fill_gaps, when the gap-filled timestamps have a single regular
\* rate the series handed to the writer is described by (starting_time,
\* rate); it carries explicit timestamps only when no regular rate is
\* recoverable or fill_gaps is off.
C25_RegularSeriesStoredByRate ==
    pc = "done" =>
        LET series  == nwb_acquisition[1]
            regular == /\ Len(series.timestamps) >= 2
                       /\ \A j \in 1..(Len(series.timestamps) - 1) :
                             series.timestamps[j + 1] - series.timestamps[j]
                                 = series.timestamps[2] - series.timestamps[1]
        IN  /\ (fill_gaps /\ regular) => series.timing = "starting_time_and_rate"
            /\ series.timing = "timestamps" => (~fill_gaps \/ ~regular)

\* C26: with stub_test and t2 = 0 add_to_nwbfile gets through the stub_test
\* assertion for every segment, whatever their number, and asks every segment
\* for the window [t1, t1 + 1 s]; the assertion fails only when the caller
\* passed a t2 other than 0.
C26_StubTestEverySegment ==
    (stub_test /\ t2_arg = 0) =>
        /\ \A k \in 1..Len(loads) : loads[k] = [t1 |-> t1, t2 |-> t1 + TicksPerSec]
        /\ (pc = "add_failed" /\ seg_i <= NumSegments) => Len(loads) = seg_i
        /\ pc = "done" => Len(loads) = NumSegments

\* C29: after every segment is appended the concatenated data and the
\* concatenated timestamps have the same length, for every stream shape and
\* every stream_indices selection, so that fill_gaps_w_nans never fails on
\* its equal-length assertion.
C29_ConcatenatedArraysSameLength ==
    /\ Len(concatenated_data) = Len(concatenated_timestamps)
    /\ ~(pc = "add_failed" /\ seg_i > NumSegments)

\* the rows the call under way produced: the table add_shock_stimuli added,
\* or the rows get_stimulus_intervals_df returned
LookupRows ==
    IF s_called = "shock"
    THEN (IF nwb_stimulus = <<>> THEN <<>> ELSE nwb_stimulus[1].rows)
    ELSE stimulus_intervals_df.rows

\* the lookup of the call under way came back with its rows
LookupCameBack ==
    \/ s_called = "shock" /\ s_pc = "done"
    \/ s_called = "get_stimulus_intervals_df" /\ s_pc = "df_returned"

\* every event of the channel has a row that carries the channel's name
ChannelEventsUsed(stream_name) ==
    \A e \in 1..Len(tdt_events[stream_name]) :
        \E r \in 1..Len(LookupRows) :
            /\ LookupRows[r].stream_name = stream_name
            /\ LookupRows[r].start_time = tdt_events[stream_name][e].onset
            /\ LookupRows[r].stop_time = tdt_events[stream_name][e].offset

Listed(stream_name) == \E k \in 1..Len(stream_names) : stream_names[k] = stream_name

\* C22: the stimulus channel lookup tolerates the known name typo.  When
\* "sms_" is listed and the events hold no "sms_" but hold "ssm_", the events
\* of "ssm_" are used and their rows carry stream_name "ssm_"; when "sms_" is
\* present its own events are used, and "ssm_" gives rows only if it is listed
\* itself; no other channel is renamed: every row carries the name of a
\* listed channel, or "ssm_" standing in for an absent "sms_".
C22_TypoTolerance ==
    LookupCameBack =>
        /\ (Listed("sms_") /\ "sms_" \notin DOMAIN tdt_events
                /\ "ssm_" \in DOMAIN tdt_events)
              => /\ ChannelEventsUsed("ssm_")
                 /\ \A r \in 1..Len(LookupRows) : LookupRows[r].stream_name # "sms_"
        /\ (Listed("sms_") /\ "sms_" \in DOMAIN tdt_events)
              => /\ ChannelEventsUsed("sms_")
                 /\ ~Listed("ssm_") =>
                       \A r \in 1..Len(LookupRows) : LookupRows[r].stream_name # "ssm_"
        /\ \A r \in 1..Len(LookupRows) :
              \/ Listed(LookupRows[r].stream_name)
              \/ /\ LookupRows[r].stream_name = "ssm_"
                 /\ Listed("sms_")
                 /\ "sms_" \notin DOMAIN tdt_events

\* get_stimulus_intervals_df read "ssm_" for a listed "sms_" that is absent
C22_Witness ==
    /\ s_called = "get_stimulus_intervals_df"
    /\ s_pc = "df_returned"
    /\ Listed("sms_")
    /\ ~Listed("ssm_")
    /\ "sms_" \notin DOMAIN tdt_events
    /\ \E r \in 1..Len(stimulus_intervals_df.rows) :
          stimulus_intervals_df.rows[r].stream_name = "ssm_"

\* ------------------------------------------------------------------------
\* Properties of the lotfi_2025 session functions (checked under
\* SpecLotfiSession)
\* ------------------------------------------------------------------------
\* the numbers of TDT folders and .mat files the claim names as failing
DiscoveryMustFail ==
    IF l_function = "varying_durations"
    THEN tdt_folder_paths # 1 \/ mat_file_paths # 1
    ELSE tdt_folder_paths = 0 \/ mat_file_paths # 1

\* C21: a session function fails without running the conversion when the
\* raw TDT folder or the processed .mat file is not found as expected:
\* varying_durations for zero or several TDT folders or zero or several .mat
\* files, varying_frequencies for no TDT folder or zero or several .mat
\* files.  It then never gets past the two searches, and it raises only for
\* these reasons.
C21_FailsWithoutConversion ==
    /\ DiscoveryMustFail =>
          /\ l_pc \in {"start", "folders_found", "raised"}
          /\ l_conversion_runs = 0
    /\ l_pc = "raised" =>
          /\ DiscoveryMustFail
          /\ l_error \in {"FileNotFoundError", "ValueError", "IndexError"}
          /\ l_conversion_runs = 0
    /\ l_pc = "converted" =>
          /\ mat_file_paths = 1
          /\ tdt_folder_paths >= 1
          /\ l_function = "varying_durations" => tdt_folder_paths = 1

\* varying_durations found two TDT folders and raised
C21_Witness ==
    /\ l_pc = "raised"
    /\ l_function = "varying_durations"
    /\ tdt_folder_paths = 2
    /\ mat_file_paths = 1
    /\ l_error = "ValueError"
    /\ l_conversion_runs = 0

\* list holds no entry of another stimulus site
OnlyLocation(list, location) ==
    \A k \in 1..Len(list) : NameHolds(location, list[k])

\* list holds, in order, the entries of loaded that name the location
MatchingKept(loaded, list, location) ==
    SelectSeq(list, LAMBDA e : NameHolds(location, e))
        = SelectSeq(loaded, LAMBDA e : NameHolds(location, e))

\* C27: after the stimulus-site filtering the metadata holds no effector and
\* no virus injection whose name lacks stimulus_location and no sites-table
\* row whose effector lacks it, whatever the lists held, and every matching
\* entry is kept.
C27_OnlyStimulusSiteLeft ==
    l_pc \in {"filtered", "converted"} =>
        /\ OnlyLocation(opto_metadata.OptogeneticEffectors, stimulus_location)
        /\ OnlyLocation(opto_metadata.OptogeneticVirusInjections, stimulus_location)
        /\ OnlyLocation(opto_metadata.OptogeneticSitesTable, stimulus_location)
        /\ MatchingKept(opto_metadata_loaded.OptogeneticEffectors,
                        opto_metadata.OptogeneticEffectors, stimulus_location)
        /\ MatchingKept(opto_metadata_loaded.OptogeneticVirusInjections,
                        opto_metadata.OptogeneticVirusInjections, stimulus_location)
        /\ MatchingKept(opto_metadata_loaded.OptogeneticSitesTable,
                        opto_metadata.OptogeneticSitesTable, stimulus_location)

TimeBase ==
    IF aligned_timestamps # <<>>
    THEN aligned_timestamps[1]
    ELSE [k \in 1..i_file_samples |-> (k - 1) * i_interval + i_starting_time]

\* the times of the time base from t1 on and, for t2 other than 0, before t2
Window(t1v, t2v) ==
    SelectSeq(TimeBase, LAMBDA t : t >= t1v /\ (t2v = 0 \/ t < t2v))

\* C30: after any sequence of set_aligned_starting_time and
\* set_aligned_timestamps calls, get_timestamps(t1, t2) returns the aligned
\* array last set if one was ever set, otherwise the times k/rate +
\* starting_time of the num_samples samples, in both cases restricted to
\* times >= t1 and, when t2 is not 0, < t2.
C30_GetTimestampsReturnsTimeBase ==
    i_result.made =>
        /\ i_result.raised = ""
        /\ i_result.value = Window(i_result.t1, i_result.t2)

\* ------------------------------------------------------------------------
\* Properties of get_demodulated_signals (checked under SpecDemod)
\* ------------------------------------------------------------------------
\* what get_demodulated_signals returned: both channels come from the raw
\* stream and its sampling rate, with driver frequencies 330 and 210, each
\* has the raw signal's length, and one timestamp array comes with both
TwinsShareSourceAndTiming ==
    m_pc = "returned" =>
        /\ Len(m_calls) = 2
        /\ m_calls[1].raw_signal = raw_signal /\ m_calls[2].raw_signal = raw_signal
        /\ m_calls[1].fs_raw = fs_raw /\ m_calls[2].fs_raw = fs_raw
        /\ m_calls[1].driver_freq = 330 /\ m_calls[2].driver_freq = 210
        /\ Len(m_result.calcium_signal) = Len(raw_signal)
        /\ Len(m_result.isosbestic_signal) = Len(raw_signal)
        /\ \A k \in 1..Len(raw_signal) :
              /\ m_result.calcium_signal[k].driver_freq = 330
              /\ m_result.isosbestic_signal[k].driver_freq = 210
              /\ m_result.calcium_signal[k].fs = fs_raw
              /\ m_result.isosbestic_signal[k].fs = fs_raw
        /\ m_result.timestamps = m_timestamps

\* C24: the calcium and isosbestic channels get_demodulated_signals returns
\* are derived from the same raw stream and sampling rate with the driver
\* frequencies 330 and 210, each has exactly the length of the raw signal,
\* both share the one returned timestamp array, and no step of the call
\* changes the raw signal.
C24_TwinChannels ==
    /\ []TwinsShareSourceAndTiming
    /\ [][raw_signal' = raw_signal /\ m_timestamps' = m_timestamps]_vars

\* a call returned both channels for a raw stream long enough to filter
C24_Witness ==
    /\ m_pc = "returned"
    /\ Len(raw_signal) > PadLen
    /\ Len(m_result.calcium_signal) = Len(raw_signal)
    /\ m_result.calcium_signal # m_result.isosbestic_signal

\* ------------------------------------------------------------------------
\* Properties of demodulate_signal on a carrier (checked under SpecCarrier)
\* ------------------------------------------------------------------------
\* C23: for the raw signal A*cos(2*pi*driver_freq*t) with constant envelope
\* A, demodulate_signal returns a series that, once the filter has settled,
\* lies within 5% of A.
C23_ConvergesToEnvelope ==
    m_pc = "demodulated" =>
        \A k \in 1..Len(demodulated_signal) :
            /\ 20 * (demodulated_signal[k] - m_amplitude) <= m_amplitude
            /\ 20 * (m_amplitude - demodulated_signal[k]) <= m_amplitude

\* ------------------------------------------------------------------------
\* Properties of fill_gaps_w_nans (checked under SpecFillGaps)
\* ------------------------------------------------------------------------
FillReturned == fg_pc = "returned"

StrictlyIncreasing(ts) == \A i \in 1..(Len(ts) - 1) : ts[i] < ts[i + 1]

\* positions of the output that hold a real sample (not the sentinel), ascending
RealPositions(d) == SelectSeq([j \in 1..Len(d) |-> j], LAMBDA j : d[j] # NaN)

\* the output with every sentinel entry deleted
WithoutSentinels(out) ==
    LET pos == RealPositions(out.data)
    IN  [data |-> [i \in 1..Len(pos) |-> out.data[pos[i]]],
         timestamps |-> [i \in 1..Len(pos) |-> out.timestamps[pos[i]]]]

GapFree(ts, rate) ==
    \A i \in 1..(Len(ts) - 1) : (ts[i + 1] - ts[i]) * rate <= TicksPerSec

\* C5: on gap-free input (every consecutive timestamp difference at most
\* 1/sampling_rate) fill_gaps_w_nans returns data and timestamps equal to its
\* inputs, length for length and value for value.
C5_GapFreeIdentity ==
    (FillReturned /\ GapFree(fg_timestamps, fg_rate))
        => /\ fg_out.data = fg_data
           /\ fg_out.timestamps = fg_timestamps

C5_Witness ==
    /\ FillReturned
    /\ GapFree(fg_timestamps, fg_rate)
    /\ Len(fg_timestamps) = 3
    /\ fg_timestamps[2] - fg_timestamps[1] = TicksPerSec \div fg_rate
    /\ fg_out.produced

\* C6: for every pair of consecutive real samples whose time difference delta
\* exceeds 1/sampling_rate, exactly floor(delta * sampling_rate) - 1 sentinels
\* lie between them in the output, at t_prev + k/sampling_rate for k = 1..count;
\* samples at t=0 and t=1.0 with sampling_rate=10 get 9 sentinels at 0.1 .. 0.9.
C6_InsertionCount ==
    FillReturned =>
        LET pos == RealPositions(fg_out.data)
        IN  /\ Len(pos) = Len(fg_timestamps)
            /\ \A i \in 1..(Len(fg_timestamps) - 1) :
                  LET delta == fg_timestamps[i + 1] - fg_timestamps[i]
                      count == ((delta * fg_rate) \div TicksPerSec) - 1
                  IN  delta * fg_rate > TicksPerSec =>
                        /\ pos[i + 1] - pos[i] - 1 = count
                        /\ \A k \in 1..count :
                              /\ fg_out.data[pos[i] + k] = NaN
                              /\ fg_out.timestamps[pos[i] + k] * fg_rate
                                    = fg_timestamps[i] * fg_rate + k * TicksPerSec
            /\ (fg_timestamps = <<0, TicksPerSec>> /\ fg_rate = 10) =>
                  /\ fg_out.timestamps = <<0, 1, 2, 3, 4, 5, 6, 7, 8, 9, 10>>
                  /\ fg_out.data = <<fg_data[1], NaN, NaN, NaN, NaN, NaN,
                                     NaN, NaN, NaN, NaN, fg_data[2]>>

C6_Witness ==
    /\ FillReturned
    /\ fg_timestamps = <<0, TicksPerSec>>
    /\ fg_rate = 10
    /\ Len(fg_out.data) = 11

\* C7: for input with strictly increasing timestamps the output is at least as
\* long as the input and its timestamps are strictly increasing.
C7_LongerAndIncreasing ==
    (FillReturned /\ StrictlyIncreasing(fg_timestamps))
        => /\ Len(fg_out.data) >= Len(fg_data)
           /\ Len(fg_out.timestamps) >= Len(fg_timestamps)
           /\ StrictlyIncreasing(fg_out.timestamps)

C7_Witness ==
    /\ FillReturned
    /\ StrictlyIncreasing(fg_timestamps)
    /\ Len(fg_timestamps) = 3
    /\ Len(fg_out.timestamps) > Len(fg_timestamps) + 2

\* the statement of C8 as written: around every inserted sentinel, each
\* successive pair of output timestamps differs by exactly 1/sampling_rate,
\* also between the last sentinel of a gap and the real sample that follows
C8_Original_ExactSpacingEverywhere ==
    FillReturned =>
        \A j \in 1..(Len(fg_out.data) - 1) :
            (fg_out.data[j] = NaN \/ fg_out.data[j + 1] = NaN) =>
                (fg_out.timestamps[j + 1] - fg_out.timestamps[j]) * fg_rate = TicksPerSec

\* C8 (amended): where sentinels were inserted, the preceding real sample and
\* the first sentinel, and each two consecutive sentinels, differ by exactly
\* 1/sampling_rate; the last sentinel and the following real sample differ by
\* at least 1/sampling_rate and less than 2/sampling_rate, and by exactly
\* 1/sampling_rate when the gap is a whole multiple of the sampling interval.
C8_SentinelSpacing ==
    FillReturned =>
        LET pos == RealPositions(fg_out.data)
        IN  /\ \A j \in 1..(Len(fg_out.data) - 1) :
                  fg_out.data[j + 1] = NaN =>
                    (fg_out.timestamps[j + 1] - fg_out.timestamps[j]) * fg_rate = TicksPerSec
            /\ \A j \in 1..(Len(fg_out.data) - 1) :
                  (fg_out.data[j] = NaN /\ fg_out.data[j + 1] # NaN) =>
                    LET d == (fg_out.timestamps[j + 1] - fg_out.timestamps[j]) * fg_rate
                    IN  /\ d >= TicksPerSec
                        /\ d < 2 * TicksPerSec
            /\ \A i \in 1..(Len(pos) - 1) :
                  LET gap == (fg_out.timestamps[pos[i + 1]] - fg_out.timestamps[pos[i]]) * fg_rate
                  IN  (pos[i + 1] > pos[i] + 1 /\ gap % TicksPerSec = 0) =>
                        (fg_out.timestamps[pos[i + 1]] - fg_out.timestamps[pos[i + 1] - 1]) * fg_rate
                            = TicksPerSec

C8_Witness ==
    /\ FillReturned
    /\ Len(fg_timestamps) = 2
    /\ ((fg_timestamps[2] - fg_timestamps[1]) * fg_rate) % TicksPerSec # 0
    /\ Len(fg_out.data) >= 4

\* C9: every inserted value is the sentinel and deleting the inserted entries
\* from the output gives back exactly the input data and timestamps, in order,
\* no real sample dropped or duplicated, for any number of gaps.
C9_RealDataUntouched ==
    FillReturned =>
        /\ WithoutSentinels(fg_out).data = fg_data
        /\ WithoutSentinels(fg_out).timestamps = fg_timestamps
        /\ Len(fg_out.timestamps) = Len(fg_out.data)
        /\ \A j \in 1..Len(fg_out.data) :
              fg_out.data[j] = NaN \/ \E i \in 1..Len(fg_data) : fg_out.data[j] = fg_data[i]

C9_Witness ==
    /\ FillReturned
    /\ Len(fg_timestamps) = 3
    /\ Len(GapIndices(fg_timestamps, fg_rate)) = 2
    /\ fg_out.data[2] = NaN
    /\ fg_out.data[Len(fg_out.data) - 1] = NaN

\* C10: fill_gaps_w_nans fails at once, before producing any output, when data
\* and timestamps differ in length or sampling_rate is zero or negative.
C10_PreconditionsFatal ==
    (fg_pc # "call" /\ (Len(fg_data) # Len(fg_timestamps) \/ fg_rate <= 0))
        => /\ fg_pc = "raised"
           /\ fg_out = NoOutput

C10_Witness ==
    /\ fg_pc = "raised"
    /\ Len(fg_data) # Len(fg_timestamps)
    /\ fg_rate > 0
    /\ Len(fg_timestamps) >= 2

\* ------------------------------------------------------------------------
\* Properties of the video start lookup and the temporal alignment
\* (checked under SpecVideo)
\* ------------------------------------------------------------------------
\* the rows of the workbook that name the file of the last lookup
LookedUpRows ==
    SelectSeq(video_metadata.rows, LAMBDA r : r.file_name = v_call.file)

WorkbookReadable ==
    /\ video_metadata.exists
    /\ video_metadata.columns = {"file_name", "start_time"}

\* C11: get_video_aligned_starting_time fails when the looked-up video start
\* precedes the session start; otherwise it returns exactly the video start
\* minus the session start, in seconds, which is never negative.
C11_OffsetExactAndNonNegative ==
    v_call.made =>
        /\ ~v_call.raised =>
              /\ v_call.value >= 0
              /\ WorkbookReadable
              /\ LookedUpRows # <<>>
              /\ v_call.value = LookedUpRows[1].start_time - session_starting_time
        /\ (WorkbookReadable /\ LookedUpRows # <<>> /\ LookedUpRows[1].start_time # NaT) =>
              IF LookedUpRows[1].start_time < session_starting_time
              THEN v_call.raised
              ELSE /\ ~v_call.raised
                   /\ v_call.value = LookedUpRows[1].start_time - session_starting_time

C11_Witness ==
    /\ v_call.made
    /\ ~v_call.raised
    /\ session_starting_time = 10
    /\ Len(LookedUpRows) = 1
    /\ LookedUpRows[1].start_time = 14
    /\ v_call.value = 4

\* C12: get_video_aligned_starting_time fails whenever the workbook does not
\* hold exactly one row for the video file name (none, or two or more); it
\* never picks one of several rows silently.
C12_ExactlyOneRowOrFail ==
    (v_call.made /\ Len(LookedUpRows) # 1) => v_call.raised

\* C13: after the temporal alignment of a conversion run every timestamp of
\* every video named in video_time_alignment_dict is its original timestamp
\* plus that video's video_starting_time (one shift for all its timestamps,
\* applied once), and the videos not named keep their original timestamps.
C13_AlignedByStartingTimeOnce ==
    v_pc = "aligned" =>
        \A n \in video_interfaces :
            LET original == OriginalTimestamps(video_frames)
            IN  /\ Len(video_timestamps[n]) = Len(original)
                /\ \A k \in 1..Len(original) :
                      /\ Len(video_timestamps[n][k]) = Len(original[k])
                      /\ \A j \in 1..Len(original[k]) :
                            video_timestamps[n][k][j] =
                                IF n \in DOMAIN video_time_alignment_dict
                                THEN original[k][j] + video_time_alignment_dict[n]
                                ELSE original[k][j]

C13_Witness ==
    /\ v_pc = "aligned"
    /\ DOMAIN video_time_alignment_dict = {"Video_250ms", "Video_1s", "Video_4s"}
    /\ video_time_alignment_dict["Video_1s"] = 4
    /\ video_time_alignment_dict["Video_4s"] = 0
    /\ video_timestamps["Video_1s"] = << <<4, 5>> >>
    /\ video_timestamps["Video_4s"] = << <<0, 1>> >>

\* ------------------------------------------------------------------------
\* Properties of dataset_to_nwb (checked under SpecBatch)
\* ------------------------------------------------------------------------
\* C16: an exception raised by a session's conversion never aborts the
\* batch: when dataset_to_nwb is through, the varying-frequencies and then
\* the varying-durations conversion of every session has been attempted, in
\* the order of the sessions, whatever the earlier attempts did.
C16_EveryConversionAttempted ==
    /\ Len(b_attempts) <= 2 * Len(session_to_nwb_kwargs_per_session)
    /\ b_pc = "done" =>
          /\ Len(b_attempts) = 2 * Len(session_to_nwb_kwargs_per_session)
          /\ \A i \in 1..Len(session_to_nwb_kwargs_per_session) :
                /\ b_attempts[2 * i - 1].session = i
                /\ b_attempts[2 * i - 1].protocol = "Varying frequencies"
                /\ b_attempts[2 * i].session = i
                /\ b_attempts[2 * i].protocol = "Varying durations"

C16_Witness ==
    /\ b_pc = "done"
    /\ Len(session_to_nwb_kwargs_per_session) = 3
    /\ Len(b_attempts) = 6
    /\ b_attempts[1].raised
    /\ b_attempts[2].raised
    /\ ~b_attempts[3].raised
    /\ b_attempts[4].raised
    /\ ~b_attempts[6].raised

\* C17: after dataset_to_nwb every conversion that failed has a diagnostic
\* file holding that conversion's own inputs and stack trace, and every
\* conversion that succeeded has its output container and no diagnostic
\* file.
C17_OneDiagnosticPerFailure ==
    b_pc = "done" =>
        \A k \in 1..Len(b_attempts) :
            LET kwargs == session_to_nwb_kwargs_per_session[b_attempts[k].session]
            IN  IF b_attempts[k].raised
                THEN \E f \in b_exception_files :
                        /\ f.path = [subject_id |-> kwargs.subject_id,
                                     session_id |-> kwargs.session_id]
                        /\ f.kwargs_of = b_attempts[k].protocol
                        /\ f.traceback_of = k
                ELSE /\ [subject_id |-> kwargs.subject_id,
                         protocol |-> b_attempts[k].protocol] \in b_nwb_files
                     /\ \A f \in b_exception_files : f.traceback_of # k

\* ------------------------------------------------------------------------
\* Properties of the stimulus interval tables (checked under SpecStimuli)
\* ------------------------------------------------------------------------
\* every row of every table added names a channel the reader reports
RowsOnlyForPresentChannels ==
    \A t \in 1..Len(nwb_stimulus) :
        \A r \in 1..Len(nwb_stimulus[t].rows) :
            nwb_stimulus[t].rows[r].stream_name \in DOMAIN tdt_events

\* every event of every listed channel the reader reports has its row
PresentListedChannelsHaveRows ==
    \A k \in 1..Len(stream_names) :
        stream_names[k] \in DOMAIN tdt_events =>
            \A e \in 1..Len(tdt_events[stream_names[k]]) :
                \E t \in 1..Len(nwb_stimulus) :
                    \E r \in 1..Len(nwb_stimulus[t].rows) :
                        /\ nwb_stimulus[t].rows[r].stream_name = stream_names[k]
                        /\ nwb_stimulus[t].rows[r].start_time
                              = tdt_events[stream_names[k]][e].onset
                        /\ nwb_stimulus[t].rows[r].stop_time
                              = tdt_events[stream_names[k]][e].offset

EveryListedChannelAbsent ==
    \A k \in 1..Len(stream_names) : stream_names[k] \notin DOMAIN tdt_events

\* the statement of C19 as written: no table from add_shock_stimuli or
\* add_auditory_stimuli when every listed channel is absent
C19_Original_NoTableWhenAllAbsent ==
    s_pc = "done" =>
        /\ RowsOnlyForPresentChannels
        /\ PresentListedChannelsHaveRows
        /\ (s_called \in {"shock", "auditory"} /\ EveryListedChannelAbsent)
              => nwb_stimulus = <<>>

\* C19 (amended): a listed stimulus channel that is absent from the reader's
\* events is skipped without failing: the three functions add intervals only
\* for channels that are present, and for every listed channel that is
\* present; add_auditory_stimuli adds no table when every listed channel is
\* absent, and add_shock_stimuli adds none when every listed channel is
\* absent and "ssm_" does not stand in for an absent "sms_".
C19_AbsentChannelsSkipped ==
    s_pc = "done" =>
        /\ RowsOnlyForPresentChannels
        /\ PresentListedChannelsHaveRows
        /\ (s_called = "auditory" /\ EveryListedChannelAbsent) => nwb_stimulus = <<>>
        /\ (/\ s_called = "shock"
            /\ EveryListedChannelAbsent
            /\ ~(\E k \in 1..Len(stream_names) :
                    stream_names[k] = "sms_" /\ "ssm_" \in DOMAIN tdt_events))
              => nwb_stimulus = <<>>
        /\ (/\ s_called = "shock"
            /\ \E k \in 1..Len(stream_names) :
                  /\ stream_names[k] = "sms_"
                  /\ "sms_" \notin DOMAIN tdt_events
                  /\ "ssm_" \in DOMAIN tdt_events)
              => /\ Len(nwb_stimulus) = 1
                 /\ \E r \in 1..Len(nwb_stimulus[1].rows) :
                       nwb_stimulus[1].rows[r].stream_name = "ssm_"

C19_Witness ==
    /\ s_pc = "done"
    /\ s_called = "shock"
    /\ stream_names = <<"s1s_", "sms_">>
    /\ DOMAIN tdt_events = {"sms_"}
    /\ Len(nwb_stimulus) = 1
    /\ Len(nwb_stimulus[1].rows) = 2
    /\ nwb_stimulus[1].rows[1].stream_name = "sms_"

\* ------------------------------------------------------------------------
\* Properties of the argument checks (checked under SpecConfig)
\* ------------------------------------------------------------------------
\* C20: configuration errors are raised before any data is read or written:
\* session_to_nwb raises for an unknown protocol_type before it has created
\* anything on disk or run the conversion, and the demodulating
\* add_to_nwbfile raises for a missing or non-positive driver_freq before it
\* has loaded the stream or added anything to the file.
C20_ConfigErrorsBeforeAnyEffect ==
    /\ protocol_type \notin ValidProtocols =>
          /\ g_pc \notin {"configured", "converted"}
          /\ g_pc = "raised" => (g_disk = g_disk_before /\ g_conversion_runs = 0)
    /\ (IF driver_freq = <<>> THEN TRUE ELSE driver_freq[1] <= 0) =>
          /\ d_pc \notin {"loaded", "written"}
          /\ d_pc = "raised" => (d_loads = 0 /\ d_series = <<>>)

====
